---- MODULE Spec2Model ----
(***************************************************************************)
(* Martin tile server: the tile request pipeline of                        *)
(* martin/src/srv/tiles.rs (DynTileSource): parallel per-source fetch,     *)
(* composition of the per-source tiles, content-encoding negotiation and   *)
(* the HTTP response.                                                      *)
(***************************************************************************)
EXTENDS Integers, Sequences, FiniteSets, TLC

VARIABLES
    src,      \* the DynTileSource of the request: sources, info, accept_enc, preferred_enc
    pending,  \* indices of self.sources whose fetch future has not completed
    done,     \* completed fetches, in completion order: <<[idx, data], ...>>
    pc,       \* "fetching" (inside try_join_all) | "done" (response produced)
    out,      \* what get_http_response produced, with the intermediate values
    req,      \* the arguments of DynTileSource::new: source_ids, zoom, query
    made,     \* what DynTileSource::new returned for req
    rq,       \* the requests served concurrently over the shared cache
    cache,    \* the tile cache: its entries [key, value], least recently used first
    loaders,  \* the loads in flight: [key, id, query_obj]
    calls,    \* the Source::get_tile invocations so far: <<[key, id, query_obj], ...>>
    pg,       \* one configured table source on its way to a PgSqlInfo
    font      \* the font sources: the scan of resolve_fonts, then a glyph range request

vars == <<src, pending, done, pc, out, req, made, rq, cache, loaders, calls, pg, font>>

\* the request handled alone, without a cache
tileVars == <<src, pending, done, pc, out, req, made, pg, font>>

\* the requests over the shared cache
cacheVars == <<rq, cache, loaders, calls>>

\* the state outside the fetch and compose steps of one request
restVars == <<req, made, rq, cache, loaders, calls, pg, font>>

(***************************************************************************)
(* Bounds of the model                                                     *)
(***************************************************************************)
\* longest source_ids list of a composite request
MaxSources == 3
\* longest Accept-Encoding entry list
MaxAccept == 2

(***************************************************************************)
(* Bytes.  A byte string is a sequence of atoms.  A raw atom stands for    *)
(* one plain byte; a member atom stands for the bytes of one compressed    *)
(* stream (one gzip member, one brotli stream, ...) holding payload v.     *)
(***************************************************************************)
Raw(b) == [enc |-> "raw", v |-> <<b>>]

Member(codec, payload) == [enc |-> codec, v |-> payload]

RECURSIVE Payload(_)
\* the plain bytes held by a byte string, member after member
Payload(data) ==
    IF data = <<>> THEN <<>> ELSE Head(data).v \o Payload(Tail(data))

RECURSIVE RawBytes(_)
RawBytes(bs) ==
    IF bs = <<>> THEN <<>> ELSE <<Raw(Head(bs))>> \o RawBytes(Tail(bs))

\* encode_gzip / encode_brotli: one compressed stream holding the input
EncodeBytes(codec, data) == <<Member(codec, Payload(data))>>

\* decode_gzip / decode_brotli: the input must be streams of that codec
DecodableBytes(codec, data) == \A k \in DOMAIN data : data[k].enc = codec

DecodeBytes(codec, data) == RawBytes(Payload(data))

RECURSIVE Concat(_)
\* Vec<Vec<u8>>::concat
Concat(tiles) ==
    IF tiles = <<>> THEN <<>> ELSE Head(tiles) \o Concat(Tail(tiles))

(***************************************************************************)
(* martin_tile_utils: Format, Encoding, TileInfo                           *)
(***************************************************************************)
Formats == {"Mvt", "Png", "Json"}

Encodings == {"Uncompressed", "Internal", "Gzip", "Zlib", "Brotli", "Zstd"}

TileInfo(f, e) == [format |-> f, encoding |-> e]

is_encoded(e) == e \notin {"Uncompressed", "Internal"}

\* Encoding::content_encoding: the Content-Encoding header value, "none" for None
content_encoding(e) ==
    CASE e = "Gzip" -> "gzip"
      [] e = "Zlib" -> "deflate"
      [] e = "Brotli" -> "br"
      [] e = "Zstd" -> "zstd"
      [] OTHER -> "none"

content_type(f) ==
    CASE f = "Mvt" -> "application/x-protobuf"
      [] f = "Png" -> "image/png"
      [] f = "Json" -> "application/json"
      [] OTHER -> "none"

\* with_info.encoding(e): the same info with another encoding
WithEncoding(info, e) == [info EXCEPT !.encoding = e]

(***************************************************************************)
(* Tile and ActixResult<Tile>                                              *)
(***************************************************************************)
Tile(data, info) == [data |-> data, info |-> info]

NoTile == Tile(<<>>, TileInfo("none", "none"))

Ok(tile) == [ok |-> TRUE, err |-> 0, tile |-> tile]

Err(status) == [ok |-> FALSE, err |-> status, tile |-> NoTile]

(***************************************************************************)
(* Accept-Encoding: a list of QualityItem<Preference<Encoding>>.           *)
(* item: a Known content coding, "unknown" (Encoding::Unknown) or "*"      *)
(* (Preference::Any); quality in thousandths (Quality is a u16, 0..1000).  *)
(***************************************************************************)
ContentEncodings == {"identity", "br", "deflate", "gzip", "zstd"}

HeaderItems == ContentEncodings \cup {"unknown", "*"}

QualityZero == 0

QualityItem(item, q) == [item |-> item, quality |-> q]

is_any(item) == item = "*"

IsKnown(item) == item \in ContentEncodings

\* SUPPORTED_ENCODINGS
SUPPORTED_ENCODINGS == {"gzip", "br", "identity"}

\* to_encoding: ContentEncoding -> Option<Encoding>, "none" for None
to_encoding(val) ==
    CASE val = "identity" -> "Uncompressed"
      [] val = "gzip" -> "Gzip"
      [] val = "br" -> "Brotli"
      [] OTHER -> "none"

\* PreferredEncoding of the server, after the default of recompress
prefer(preferred_enc) == IF preferred_enc = "Brotli" THEN "Brotli" ELSE "Gzip"

\* the server preference ignored: the Gzip table for either preference
encoding_rank_mut(qv, prefer_encoding) ==
    IF qv.quality = QualityZero THEN 0
    ELSE CASE qv.item = "gzip" -> 5
           [] qv.item = "br" -> 4
           [] qv.item = "zstd" -> 3
           [] qv.item = "deflate" -> 2
           [] qv.item = "*" -> 0
           [] qv.item = "identity" -> 0
           [] OTHER -> 1

encoding_rank(qv, prefer_encoding) ==
    IF qv.quality = QualityZero THEN 0
    ELSE IF prefer_encoding = "Gzip"
    THEN CASE qv.item = "gzip" -> 5
           [] qv.item = "br" -> 4
           [] qv.item = "zstd" -> 3
           [] qv.item = "deflate" -> 2
           [] qv.item = "*" -> 0
           [] qv.item = "identity" -> 0
           [] OTHER -> 1
    ELSE CASE qv.item = "br" -> 5
           [] qv.item = "gzip" -> 4
           [] qv.item = "zstd" -> 3
           [] qv.item = "deflate" -> 2
           [] qv.item = "*" -> 0
           [] qv.item = "identity" -> 0
           [] OTHER -> 1

\* the comparator of types.sort_by: a sorts strictly before b
SortsBefore(a, b, p) ==
    \/ a.quality > b.quality
    \/ /\ a.quality = b.quality
       /\ encoding_rank(a, p) > encoding_rank(b, p)

RECURSIVE InsertStable(_, _, _)
\* x goes before the first element it sorts strictly before: equal items keep
\* their listed order
InsertStable(sorted, x, p) ==
    IF sorted = <<>> THEN <<x>>
    ELSE IF SortsBefore(x, Head(sorted), p) THEN <<x>> \o sorted
    ELSE <<Head(sorted)>> \o InsertStable(Tail(sorted), x, p)

RECURSIVE StableSort(_, _)
StableSort(items, p) ==
    IF items = <<>> THEN <<>>
    ELSE InsertStable(StableSort(SubSeq(items, 1, Len(items) - 1), p),
                      items[Len(items)], p)

ranked_accept_items(accept_enc, prefer_encoding) ==
    IF accept_enc = <<>> THEN <<>> ELSE StableSort(accept_enc, prefer_encoding)

RECURSIVE is_identity_acceptable(_)
is_identity_acceptable(items) ==
    IF items = <<>> THEN TRUE
    ELSE IF Head(items).item = "identity" \/ Head(items).item = "*"
    THEN Head(items).quality > QualityZero
    ELSE is_identity_acceptable(Tail(items))

RECURSIVE FindSupported_mut(_)
\* the .filter(q > 0) left out
FindSupported_mut(items) ==
    IF items = <<>> THEN "none"
    ELSE IF Head(items).item \in SUPPORTED_ENCODINGS
    THEN Head(items).item
    ELSE FindSupported_mut(Tail(items))

RECURSIVE FindSupported(_)
\* .filter(q > 0).find(Specific(enc) in SUPPORTED_ENCODINGS).map(item), "none" for None
FindSupported(items) ==
    IF items = <<>> THEN "none"
    ELSE IF Head(items).quality > QualityZero /\ Head(items).item \in SUPPORTED_ENCODINGS
    THEN Head(items).item
    ELSE FindSupported(Tail(items))

PreferredHeaderEnc(preferred_enc) == IF preferred_enc = "Brotli" THEN "br" ELSE "gzip"

\* the sole-`*` shortcut left out: a sole `*` goes through the ranking
negotiate_mut(accept_enc, preferred_enc) ==
    IF accept_enc = <<>> THEN PreferredHeaderEnc(preferred_enc)
    ELSE LET acceptable_items == ranked_accept_items(accept_enc, preferred_enc)
             identity_acceptable == is_identity_acceptable(acceptable_items)
             matched == FindSupported(acceptable_items)
         IN  IF matched # "none" THEN matched
             ELSE IF identity_acceptable THEN "identity"
             ELSE "none"

\* negotiate: Option<HeaderEnc>, "none" for None
negotiate(accept_enc, preferred_enc) ==
    IF accept_enc = <<>> THEN PreferredHeaderEnc(preferred_enc)
    ELSE IF is_any(accept_enc[1].item) /\ Len(accept_enc) = 1
    THEN PreferredHeaderEnc(preferred_enc)
    ELSE LET acceptable_items == ranked_accept_items(accept_enc, preferred_enc)
             identity_acceptable == is_identity_acceptable(acceptable_items)
             matched == FindSupported(acceptable_items)
         IN  IF matched # "none" THEN matched
             ELSE IF identity_acceptable THEN "identity"
             ELSE "none"

(***************************************************************************)
(* encode, decode, recompress                                              *)
(***************************************************************************)
\* encode(tile, enc): ActixResult<Tile>
encode(tile, enc) ==
    CASE enc = "br" ->
           Ok(Tile(EncodeBytes("br", tile.data), WithEncoding(tile.info, "Brotli")))
      [] enc = "gzip" ->
           Ok(Tile(EncodeBytes("gzip", tile.data), WithEncoding(tile.info, "Gzip")))
      [] OTHER -> Ok(tile)

\* the Brotli arm forgotten: a Brotli tile falls to the 400 of the other codecs
decode_mut(tile) ==
    IF is_encoded(tile.info.encoding)
    THEN CASE tile.info.encoding = "Gzip" ->
                IF DecodableBytes("gzip", tile.data)
                THEN Ok(Tile(DecodeBytes("gzip", tile.data),
                             WithEncoding(tile.info, "Uncompressed")))
                ELSE Err(500)
           [] OTHER -> Err(400)
    ELSE Ok(tile)

\* decode(tile): ActixResult<Tile>; a codec failure (`?` on an io::Error) is a 500
decode(tile) ==
    IF is_encoded(tile.info.encoding)
    THEN CASE tile.info.encoding = "Gzip" ->
                IF DecodableBytes("gzip", tile.data)
                THEN Ok(Tile(DecodeBytes("gzip", tile.data),
                             WithEncoding(tile.info, "Uncompressed")))
                ELSE Err(500)
           [] tile.info.encoding = "Brotli" ->
                IF DecodableBytes("br", tile.data)
                THEN Ok(Tile(DecodeBytes("br", tile.data),
                             WithEncoding(tile.info, "Uncompressed")))
                ELSE Err(500)
           [] OTHER -> Err(400)
    ELSE Ok(tile)

\* the accept_enc.iter().any(...) of recompress: some entry is
\* Preference::Specific(HeaderEnc::Known(enc)) with to_encoding(enc) = the tile's encoding
AcceptNamesEncoding(accept_enc, encoding) ==
    \E k \in DOMAIN accept_enc :
        /\ IsKnown(accept_enc[k].item)
        /\ to_encoding(accept_enc[k].item) = encoding

\* What recompress returns, with the steps it took:
\*   res        the ActixResult<Tile>
\*   decoded    decode was called on an encoded tile
\*   negotiated negotiate's answer, "notcalled" when it was not called
RecompressOut(res, decoded, negotiated) ==
    [res |-> res, decoded |-> decoded, negotiated |-> negotiated]

recompress(self, data) ==
    LET tile == Tile(data, self.info) IN
    IF self.accept_enc.present
    THEN LET accept_enc == self.accept_enc.items
             must_decode == /\ is_encoded(self.info.encoding)
                            /\ ~AcceptNamesEncoding(accept_enc, tile.info.encoding)
             first == IF must_decode THEN decode(tile) ELSE Ok(tile)
         IN  IF ~first.ok THEN RecompressOut(first, must_decode, "notcalled")
             ELSE IF first.tile.info.encoding = "Uncompressed"
             THEN LET enc == negotiate(accept_enc, prefer(self.preferred_enc))
                  IN  IF IsKnown(enc)
                      THEN RecompressOut(encode(first.tile, enc), must_decode, enc)
                      ELSE RecompressOut(first, must_decode, enc)
             ELSE RecompressOut(first, must_decode, "notcalled")
    ELSE RecompressOut(decode(tile), is_encoded(tile.info.encoding), "notcalled")

(***************************************************************************)
(* get_tile_content: composition of the per-source tiles                   *)
(***************************************************************************)
\* try_join_all's output: the results in the order of the futures given, whatever
\* the order they completed in
JoinOutput_mut(completed) == [k \in DOMAIN completed |-> completed[k].data]

JoinOutput(completed) ==
    [i \in DOMAIN completed |->
        (CHOOSE r \in {completed[k] : k \in DOMAIN completed} : r.idx = i).data]

RECURSIVE CountLayers_mut(_, _, _)
\* last_non_empty_layer assigned outside the `if`
CountLayers_mut(tiles, idx, acc) ==
    IF idx >= Len(tiles) THEN acc
    ELSE CountLayers_mut(tiles, idx + 1,
            [layer_count |-> acc.layer_count + (IF tiles[idx + 1] # <<>> THEN 1 ELSE 0),
             last_non_empty_layer |-> idx])

RECURSIVE CountLayers(_, _, _)
\* the loop over tiles.iter().enumerate(): [layer_count, last_non_empty_layer]
\* (last_non_empty_layer is 0-based, as in the code)
CountLayers(tiles, idx, acc) ==
    IF idx >= Len(tiles) THEN acc
    ELSE CountLayers(tiles, idx + 1,
            IF tiles[idx + 1] # <<>>
            THEN [layer_count |-> acc.layer_count + 1, last_non_empty_layer |-> idx]
            ELSE acc)

can_join_mut(info) == info.format = "Mvt" /\ info.encoding = "Uncompressed"

can_join(info) ==
    /\ info.format = "Mvt"
    /\ (info.encoding = "Uncompressed" \/ info.encoding = "Gzip")

\* What get_tile_content returns, with the value of `data` handed to recompress:
\*   merge   "empty" (0 layers, returned early) | "single" | "concat" |
\*           "cannot" (400, not joinable)
TileContent(merge, data, rec) ==
    [merge |-> merge, data |-> data, res |-> rec.res,
     decoded |-> rec.decoded, negotiated |-> rec.negotiated]

get_tile_content(self, tiles) ==
    LET c == CountLayers(tiles, 0, [layer_count |-> 0, last_non_empty_layer |-> 0])
    IN  CASE c.layer_count = 1 ->
               LET data == tiles[c.last_non_empty_layer + 1]
               IN  TileContent("single", data, recompress(self, data))
          [] c.layer_count = 0 ->
               TileContent("empty", <<>>,
                   RecompressOut(Ok(Tile(<<>>, self.info)), FALSE, "notcalled"))
          [] OTHER ->
               IF ~can_join(self.info)
               THEN TileContent("cannot", <<>>,
                        RecompressOut(Err(400), FALSE, "notcalled"))
               ELSE LET data == Concat(tiles)
                    IN  TileContent("concat", data, recompress(self, data))

(***************************************************************************)
(* get_http_response                                                       *)
(***************************************************************************)
HttpResponse(status, ctype, cenc, body) ==
    [status |-> status, content_type |-> ctype, content_encoding |-> cenc,
     body |-> body]

\* the header inserted without the `if let Some`: "identity" for a plain tile
get_http_response_mut(res) ==
    IF ~res.ok THEN HttpResponse(res.err, "none", "none", <<>>)
    ELSE IF res.tile.data = <<>> THEN HttpResponse(204, "none", "none", <<>>)
    ELSE HttpResponse(200, content_type(res.tile.info.format),
                      IF res.tile.info.encoding = "Uncompressed" THEN "identity"
                      ELSE content_encoding(res.tile.info.encoding),
                      res.tile.data)

get_http_response(res) ==
    IF ~res.ok THEN HttpResponse(res.err, "none", "none", <<>>)
    ELSE IF res.tile.data = <<>> THEN HttpResponse(204, "none", "none", <<>>)
    ELSE HttpResponse(200, content_type(res.tile.info.format),
                      content_encoding(res.tile.info.encoding), res.tile.data)

\* map_internal_error: a failed fetch is a 500
map_internal_error == 500

(***************************************************************************)
(* The requests                                                            *)
(***************************************************************************)
\* the TileInfo values the registered sources have
SharedInfos ==
    {TileInfo("Mvt", "Uncompressed"), TileInfo("Mvt", "Gzip"),
     TileInfo("Mvt", "Brotli"), TileInfo("Mvt", "Zstd"), TileInfo("Mvt", "Zlib"),
     TileInfo("Png", "Internal"), TileInfo("Json", "Uncompressed")}

\* the bytes a source of that encoding returns for a tile with that content
Stored(payload, encoding) ==
    IF is_encoded(encoding)
    THEN <<Member(content_encoding(encoding), payload)>>
    ELSE RawBytes(payload)

\* the sources of one TileInfo: one with no tile at the coordinate (empty bytes)
\* and two with different content
TileSources(info) ==
    {[id |-> "empty", data |-> <<>>],
     [id |-> "one", data |-> Stored(<<1>>, info.encoding)],
     [id |-> "two", data |-> Stored(<<2>>, info.encoding)]}

\* a source whose stored tile is a compressed stream of no content
BlankSource(info) == [id |-> "blank", data |-> Stored(<<>>, info.encoding)]

SeqsFromTo(S, lo, hi) == UNION {[1..n -> S] : n \in lo..hi}

\* Option<AcceptEncoding>
NoHeader == [present |-> FALSE, items |-> <<>>]

Header(items) == [present |-> TRUE, items |-> items]

Qualities == {0, 500, 1000}

QualityItems == {QualityItem(i, q) : i \in HeaderItems, q \in Qualities}

AllHeaders ==
    {NoHeader} \cup {Header(items) : items \in SeqsFromTo(QualityItems, 0, MaxAccept)}

ComposeHeaders ==
    {NoHeader, Header(<<QualityItem("gzip", 1000)>>), Header(<<QualityItem("br", 1000)>>)}

\* Option<PreferredEncoding>
PreferredEncodings == {"None", "Gzip", "Brotli"}

DynTileSource(sources, info, accept_enc, preferred_enc) ==
    [sources |-> sources, info |-> info, accept_enc |-> accept_enc,
     preferred_enc |-> preferred_enc]

(***************************************************************************)
(* The state machine of one request                                        *)
(***************************************************************************)
\* out: the TileContent and the HttpResponse made of it
Outcome(content) == [content |-> content, resp |-> get_http_response(content.res)]

NoOutcome ==
    [content |-> TileContent("pending", <<>>,
                     RecompressOut(Err(0), FALSE, "notcalled")),
     resp |-> HttpResponse(0, "none", "none", <<>>)]

\* Option<u8>
NoZoom == [present |-> FALSE, z |-> 0]

Zoom(z) == [present |-> TRUE, z |-> z]

\* the path and query of a request, as handed to DynTileSource::new
Request(source_ids, zoom, query) ==
    [source_ids |-> source_ids, zoom |-> zoom, query |-> query]

NoRequest == Request(<<>>, NoZoom, <<>>)

\* Option<&str>
NoQueryStr == [present |-> FALSE, q |-> <<>>]

\* Option<UrlQuery>: the parsed map as its set of key/value pairs
NoQueryObj == [present |-> FALSE, map |-> {}]

\* ActixResult<DynTileSource>
Made(state, status, error, self) ==
    [state |-> state, status |-> status, error |-> error, self |-> self]

NotMade ==
    Made("none", 0, "",
         [sources |-> <<>>, info |-> TileInfo("Mvt", "Uncompressed"),
          query_str |-> NoQueryStr, query_obj |-> NoQueryObj,
          use_url_query |-> FALSE])

\* the tasks serving requests over the shared cache
Requesters == {1, 2}

\* one per-source future of a request: st is "todo" | "waiting" | "got" |
\* "failed"; via is how the cache answered: "hit" | "join" | "load"
Fetch(st, via, key, asked, data) ==
    [st |-> st, via |-> via, key |-> key, asked |-> asked, data |-> data]

\* CacheKey::Tile(id, xyz) | CacheKey::TileWithQuery(id, xyz, query)
CacheKey(tag, id, xyz, query) == [tag |-> tag, id |-> id, xyz |-> xyz, query |-> query]

NoFetch == Fetch("todo", "", CacheKey("", "", 0, <<>>), NoQueryObj, <<>>)

\* a request task that has not started
IdleRequester ==
    [req |-> NoRequest, accept_enc |-> NoHeader, made |-> NotMade, fetch |-> <<>>,
     pc |-> "idle", out |-> NoOutcome]

\* no table source is being built
NoTable == [stage |-> "none"]

\* resolve_fonts has not been called
NoFonts == [stage |-> "none"]

NoCache ==
    /\ rq = [r \in Requesters |-> IdleRequester]
    /\ cache = <<>>
    /\ loaders = {}
    /\ calls = <<>>
    /\ pg = NoTable
    /\ font = NoFonts

InitWith(self) ==
    /\ req = NoRequest
    /\ made = NotMade
    /\ NoCache
    /\ src = self
    /\ pending = DOMAIN self.sources
    /\ done = <<>>
    /\ pc = "fetching"
    /\ out = NoOutcome

\* composite requests: up to MaxSources sources of one TileInfo
Init ==
    \E info \in SharedInfos, h \in ComposeHeaders, p \in PreferredEncodings :
        \E ss \in SeqsFromTo(TileSources(info), 1, MaxSources) :
            InitWith(DynTileSource(ss, info, h, p))

\* single-source requests, with every Accept-Encoding list up to MaxAccept entries
InitEnc ==
    \E info \in SharedInfos, h \in AllHeaders, p \in PreferredEncodings :
        \E s \in TileSources(info) \cup {BlankSource(info)} :
            InitWith(DynTileSource(<<s>>, info, h, p))

\* a completed fetch, as recorded in done
Completed(i, ok, data) == [idx |-> i, ok |-> ok, data |-> data]

\* one source's get_tile future completes with its tile
FetchOk(i) ==
    /\ pc = "fetching"
    /\ i \in pending
    /\ pending' = pending \ {i}
    /\ done' = Append(done, Completed(i, TRUE, src.sources[i].data))
    /\ UNCHANGED <<src, pc, out>>
    /\ UNCHANGED restVars

\* join_all in place of try_join_all: the error is kept as an empty tile and the
\* other fetches go on
FetchErr_mut(i) ==
    /\ pc = "fetching"
    /\ i \in pending
    /\ pending' = pending \ {i}
    /\ done' = Append(done, Completed(i, FALSE, <<>>))
    /\ UNCHANGED <<src, pc, out>>
    /\ UNCHANGED restVars

\* one source's get_tile future completes with an error: try_join_all returns it
\* at once and drops the futures still pending; map_internal_error makes it a 500
FetchErr(i) ==
    /\ pc = "fetching"
    /\ i \in pending
    /\ pending' = {}
    /\ done' = Append(done, Completed(i, FALSE, <<>>))
    /\ pc' = "done"
    /\ out' = Outcome(TileContent("failed", <<>>,
                        RecompressOut(Err(map_internal_error), FALSE, "notcalled")))
    /\ UNCHANGED src
    /\ UNCHANGED restVars

\* every fetch completed: the rest of get_tile_content and get_http_response
Respond ==
    /\ pc = "fetching"
    /\ pending = {}
    /\ pc' = "done"
    /\ out' = Outcome(get_tile_content(src, JoinOutput(done)))
    /\ UNCHANGED <<src, pending, done>>
    /\ UNCHANGED restVars

Next ==
    \/ \E i \in DOMAIN src.sources : FetchOk(i)
    \/ \E i \in DOMAIN src.sources : FetchErr(i)
    \/ Respond

Spec == Init /\ [][Next]_vars

SpecEnc == InitEnc /\ [][Next]_vars

(***************************************************************************)
(* Source resolution: AppState::get_sources and DynTileSource::new         *)
(***************************************************************************)
\* highest zoom level of the model
MaxZoom == 2

Pair(k, v) == [k |-> k, v |-> v]

\* a registered source; valid zooms are minzoom..maxzoom
Source(id, info, minzoom, maxzoom, support_url_query, payload) ==
    [id |-> id, info |-> info, minzoom |-> minzoom, maxzoom |-> maxzoom,
     support_url_query |-> support_url_query, payload |-> payload]

is_valid_zoom(source, zoom) == source.minzoom <= zoom /\ zoom <= source.maxzoom

\* every zoom taken as valid
check_zoom_mut(source, id, zoom) == TRUE

check_zoom(source, id, zoom) == is_valid_zoom(source, zoom)

\* the registered sources, by id
AppSources ==
    [id \in {"a", "b", "c", "q"} |->
        CASE id = "a" -> Source("a", TileInfo("Mvt", "Uncompressed"), 0, MaxZoom, FALSE, <<1>>)
          [] id = "b" -> Source("b", TileInfo("Mvt", "Uncompressed"), 1, 1, FALSE, <<2>>)
          [] id = "c" -> Source("c", TileInfo("Mvt", "Gzip"), 0, 1, FALSE, <<3>>)
          [] id = "q" -> Source("q", TileInfo("Mvt", "Uncompressed"), 0, 0, TRUE, <<4>>)]

\* the ids a request may list: the registered ones and one that is not
RequestIds == DOMAIN AppSources \cup {"x"}

\* the URL query string as its `k=v` pairs in written order; key "%" stands for
\* a pair that cannot be decoded
Queries ==
    {<<>>, <<Pair("k", "1")>>, <<Pair("k", "2"), Pair("k", "1")>>, <<Pair("%", "")>>}

LastIndex(query, k) ==
    CHOOSE i \in DOMAIN query :
        /\ query[i].k = k
        /\ \A j \in DOMAIN query : query[j].k = k => j <= i

\* Query::<UrlQuery>::from_query: a map, the last value of a repeated key kept
from_query(query) ==
    IF \E i \in DOMAIN query : query[i].k = "%"
    THEN [ok |-> FALSE, map |-> {}]
    ELSE [ok |-> TRUE,
          map |-> {Pair(query[i].k, query[LastIndex(query, query[i].k)].v) :
                      i \in DOMAIN query}]

\* Source::get_tile(xyz, query): a source that supports URL queries answers by
\* the parsed query
get_tile(source, query_obj) ==
    IF source.support_url_query /\ query_obj.present
    THEN Stored(<<Cardinality(query_obj.map) + 5>>, source.info.encoding)
    ELSE Stored(source.payload, source.info.encoding)

\* Result<(Vec<&dyn Source>, bool, TileInfo)>
Resolved(ok, error, sources, use_url_query, has_info, info) ==
    [ok |-> ok, error |-> error, sources |-> sources,
     use_url_query |-> use_url_query, has_info |-> has_info, info |-> info]

RECURSIVE get_sources_from_mut(_, _, _, _, _)
\* the zoom filter applied first: a dropped source is not looked at further
get_sources_from_mut(sources, source_ids, zoom, k, acc) ==
    IF k > Len(source_ids) THEN acc
    ELSE LET id == source_ids[k]
         IN  IF id \notin DOMAIN sources
             THEN Resolved(FALSE, "Source does not exist", <<>>, FALSE, FALSE, acc.info)
             ELSE IF zoom.present /\ ~check_zoom(sources[id], id, zoom.z)
             THEN get_sources_from_mut(sources, source_ids, zoom, k + 1, acc)
             ELSE IF acc.has_info /\ acc.info # sources[id].info
             THEN Resolved(FALSE, "Cannot merge sources", <<>>, FALSE, FALSE, acc.info)
             ELSE get_sources_from_mut(sources, source_ids, zoom, k + 1,
                      Resolved(TRUE, "", Append(acc.sources, sources[id]),
                               acc.use_url_query \/ sources[id].support_url_query,
                               TRUE, sources[id].info))

RECURSIVE get_sources_from(_, _, _, _, _)
\* the loop of get_sources from the k-th listed id on
get_sources_from(sources, source_ids, zoom, k, acc) ==
    IF k > Len(source_ids) THEN acc
    ELSE LET id == source_ids[k]
         IN  IF id \notin DOMAIN sources
             THEN Resolved(FALSE, "Source does not exist", <<>>, FALSE, FALSE, acc.info)
             ELSE LET source == sources[id]
                      src_inf == source.info
                      use_url_query == acc.use_url_query \/ source.support_url_query
                  IN  IF acc.has_info /\ acc.info # src_inf
                      THEN Resolved(FALSE, "Cannot merge sources", <<>>, FALSE, FALSE,
                                    acc.info)
                      ELSE get_sources_from(sources, source_ids, zoom, k + 1,
                               Resolved(TRUE, "",
                                   IF zoom.present => check_zoom(source, id, zoom.z)
                                   THEN Append(acc.sources, source)
                                   ELSE acc.sources,
                                   use_url_query, TRUE, src_inf))

get_sources(sources, source_ids, zoom) ==
    get_sources_from(sources, source_ids, zoom, 1,
        Resolved(TRUE, "", <<>>, FALSE, FALSE, TileInfo("Mvt", "Uncompressed")))

\* the `use_url_query &&` test left out
new_mut(sources, source_ids, zoom, query) ==
    LET found == get_sources(sources, source_ids, zoom)
        self == [sources |-> found.sources, info |-> found.info,
                 query_str |-> NoQueryStr, query_obj |-> NoQueryObj,
                 use_url_query |-> found.use_url_query]
    IN  IF ~found.ok THEN Made("err", 404, found.error, NotMade.self)
        ELSE IF found.sources = <<>>
        THEN Made("err", 404, "No valid sources found", NotMade.self)
        ELSE IF query # <<>>
        THEN IF ~from_query(query).ok
             THEN Made("err", 400, "Query deserialize error", NotMade.self)
             ELSE Made("ok", 0, "",
                      [self EXCEPT !.query_str = [present |-> TRUE, q |-> query],
                                   !.query_obj = [present |-> TRUE,
                                                  map |-> from_query(query).map]])
        ELSE Made("ok", 0, "", self)

\* DynTileSource::new, up to the Accept-Encoding and preference it stores as given
new(sources, source_ids, zoom, query) ==
    LET found == get_sources(sources, source_ids, zoom)
        self == [sources |-> found.sources, info |-> found.info,
                 query_str |-> NoQueryStr, query_obj |-> NoQueryObj,
                 use_url_query |-> found.use_url_query]
    IN  IF ~found.ok THEN Made("err", 404, found.error, NotMade.self)
        ELSE IF found.sources = <<>>
        THEN Made("err", 404, "No valid sources found", NotMade.self)
        ELSE IF found.use_url_query /\ query # <<>>
        THEN IF ~from_query(query).ok
             THEN Made("err", 400, "Query deserialize error", NotMade.self)
             ELSE Made("ok", 0, "",
                      [self EXCEPT !.query_str = [present |-> TRUE, q |-> query],
                                   !.query_obj = [present |-> TRUE,
                                                  map |-> from_query(query).map]])
        ELSE Made("ok", 0, "", self)

\* a source of the request with the tile its get_tile future will yield
Fetchable(source, query_obj) == [id |-> source.id, data |-> get_tile(source, query_obj)]

\* requests over the registered sources: up to MaxSources listed ids
InitNew ==
    /\ \E ids \in SeqsFromTo(RequestIds, 1, MaxSources) :
       \E z \in {NoZoom} \cup {Zoom(n) : n \in 0..MaxZoom} :
       \E q \in Queries :
           req = Request(ids, z, q)
    /\ made = NotMade
    /\ src = DynTileSource(<<>>, NotMade.self.info, NoHeader, "None")
    /\ pending = {}
    /\ done = <<>>
    /\ pc = "new"
    /\ out = NoOutcome
    /\ NoCache

\* get_tile: DynTileSource::new(..)?; an error is the response, otherwise the
\* fetches of get_tile_content start
New ==
    /\ pc = "new"
    /\ LET r == new(AppSources, req.source_ids, req.zoom, req.query)
       IN  /\ made' = r
           /\ IF r.state = "ok"
              THEN /\ src' = DynTileSource(
                               [i \in DOMAIN r.self.sources |->
                                   Fetchable(r.self.sources[i], r.self.query_obj)],
                               r.self.info, NoHeader, "None")
                   /\ pending' = DOMAIN r.self.sources
                   /\ pc' = "fetching"
                   /\ out' = out
              ELSE /\ pc' = "done"
                   /\ out' = Outcome(TileContent("notmade", <<>>,
                                RecompressOut(Err(r.status), FALSE, "notcalled")))
                   /\ UNCHANGED <<src, pending>>
    /\ UNCHANGED <<req, done, pg, font>>
    /\ UNCHANGED cacheVars

NextNew ==
    \/ New
    \/ \E i \in DOMAIN src.sources : FetchOk(i)
    \/ \E i \in DOMAIN src.sources : FetchErr(i)
    \/ Respond

SpecNew == InitNew /\ [][NextNew]_vars

(***************************************************************************)
(* The tile cache: get_tile_content of concurrent requests over one cache  *)
(***************************************************************************)
\* the key with the Accept-Encoding of the request added to it
make_key_mut(self, accept_enc, id, xyz) ==
    [tag |-> "Tile", id |-> id, xyz |-> xyz, query |-> <<>>,
     accept_enc |-> accept_enc]

\* the key expression of get_tile_content
make_key(self, accept_enc, id, xyz) ==
    IF self.query_str.present
    THEN CacheKey("TileWithQuery", id, xyz, self.query_str.q)
    ELSE CacheKey("Tile", id, xyz, <<>>)

\* CacheValue::Tile under its key
Entry(key, value) == [key |-> key, value |-> value]

\* the entries the cache holds at most
CacheCapacity == 2

\* the cache holds a value under key
Cached(key) == \E k \in DOMAIN cache : cache[k].key = key

CachedValue(key) == (CHOOSE e \in {cache[k] : k \in DOMAIN cache} : e.key = key).value

\* the entries other than the one under key, in their order
Without(key) == SelectSeq(cache, LAMBDA e : e.key # key)

\* get: the entry read becomes the most recently used
Touch(key) == Append(Without(key), Entry(key, CachedValue(key)))

\* insert: the least recently used entries are dropped to keep the capacity
Insert(key, value) ==
    LET all == Append(Without(key), Entry(key, value))
    IN  IF Len(all) > CacheCapacity
        THEN SubSeq(all, Len(all) - CacheCapacity + 1, Len(all))
        ELSE all

\* a load in flight: the shared future of s.get_tile(xyz, query_obj)
Loader(key, id, query_obj) == [key |-> key, id |-> id, query_obj |-> query_obj]

\* the source lists and zooms of the requests over the cache
CachedPaths ==
    {<<<<"a">>, 0>>, <<<<"c">>, 0>>, <<<<"a", "q">>, 0>>, <<<<"a", "q">>, 1>>,
     <<<<"a", "a">>, 0>>}

\* the query strings of the requests: the first client also writes k twice
CachedQueries(r) ==
    {<<>>, <<Pair("k", "1")>>} \cup
    (IF r = 1 THEN {<<Pair("k", "2"), Pair("k", "1")>>} ELSE {})

\* the client of the first requester sends no Accept-Encoding, the client of
\* the second takes gzip
CachedHeader(r) == IF r = 1 THEN NoHeader ELSE Header(<<QualityItem("gzip", 1000)>>)

InitCache ==
    /\ \E path \in [Requesters -> CachedPaths] :
       \E query \in [Requesters -> Queries] :
          /\ \A r \in Requesters : query[r] \in CachedQueries(r)
          /\ rq = [r \in Requesters |->
                   [IdleRequester EXCEPT !.req = Request(path[r][1], Zoom(path[r][2]),
                                                         query[r]),
                                         !.accept_enc = CachedHeader(r),
                                         !.pc = "new"]]
    /\ cache = <<>>
    /\ loaders = {}
    /\ calls = <<>>
    /\ font = NoFonts
    /\ req = NoRequest
    /\ made = NotMade
    /\ src = DynTileSource(<<>>, NotMade.self.info, NoHeader, "None")
    /\ pending = {}
    /\ done = <<>>
    /\ pc = "idle"
    /\ out = NoOutcome
    /\ pg = NoTable

\* get_tile of requester r: DynTileSource::new(..)?
CacheNew(r) ==
    /\ rq[r].pc = "new"
    /\ LET m == new(AppSources, rq[r].req.source_ids, rq[r].req.zoom, rq[r].req.query)
       IN  rq' = [rq EXCEPT ![r] =
                   IF m.state = "ok"
                   THEN [@ EXCEPT !.made = m, !.pc = "fetching",
                                  !.fetch = [i \in DOMAIN m.self.sources |-> NoFetch]]
                   ELSE [@ EXCEPT !.made = m, !.pc = "done",
                                  !.out = Outcome(TileContent("notmade", <<>>,
                                      RecompressOut(Err(m.status), FALSE, "notcalled")))]]
    /\ UNCHANGED <<cache, loaders, calls>>
    /\ UNCHANGED tileVars

\* every lookup a miss that starts its own load
Lookup_mut(r, i) ==
    /\ rq[r].pc = "fetching"
    /\ i \in DOMAIN rq[r].fetch
    /\ rq[r].fetch[i].st = "todo"
    /\ LET self == rq[r].made.self
           s == self.sources[i]
           key == make_key(self, rq[r].accept_enc, s.id, rq[r].req.zoom.z)
       IN  /\ rq' = [rq EXCEPT ![r].fetch[i] =
                        Fetch("waiting", "load", key, self.query_obj, <<>>)]
           /\ loaders' = loaders \cup {Loader(key, s.id, self.query_obj)}
           /\ calls' = Append(calls, Loader(key, s.id, self.query_obj))
           /\ UNCHANGED cache
    /\ UNCHANGED tileVars

\* get_or_compute(key, loader) up to its suspension: a stored value answers at
\* once; a load in flight for the key is joined; otherwise this future becomes
\* the load of the key and calls s.get_tile
Lookup(r, i) ==
    /\ rq[r].pc = "fetching"
    /\ i \in DOMAIN rq[r].fetch
    /\ rq[r].fetch[i].st = "todo"
    /\ LET self == rq[r].made.self
           s == self.sources[i]
           key == make_key(self, rq[r].accept_enc, s.id, rq[r].req.zoom.z)
       IN  IF Cached(key)
           THEN /\ rq' = [rq EXCEPT ![r].fetch[i] =
                            Fetch("got", "hit", key, self.query_obj, CachedValue(key))]
                /\ cache' = Touch(key)
                /\ UNCHANGED <<loaders, calls>>
           ELSE IF \E l \in loaders : l.key = key
           THEN /\ rq' = [rq EXCEPT ![r].fetch[i] =
                            Fetch("waiting", "join", key, self.query_obj, <<>>)]
                /\ UNCHANGED <<cache, loaders, calls>>
           ELSE /\ rq' = [rq EXCEPT ![r].fetch[i] =
                            Fetch("waiting", "load", key, self.query_obj, <<>>)]
                /\ loaders' = loaders \cup {Loader(key, s.id, self.query_obj)}
                /\ calls' = Append(calls, Loader(key, s.id, self.query_obj))
                /\ UNCHANGED cache
    /\ UNCHANGED tileVars

\* the futures of requests still in try_join_all that wait for key get outcome
Settle(key, st, data) ==
    [r \in Requesters |->
        IF rq[r].pc # "fetching" THEN rq[r]
        ELSE [rq[r] EXCEPT !.fetch =
                [i \in DOMAIN rq[r].fetch |->
                    IF rq[r].fetch[i].st = "waiting" /\ rq[r].fetch[i].key = key
                    THEN [rq[r].fetch[i] EXCEPT !.st = st, !.data = data]
                    ELSE rq[r].fetch[i]]]]

\* the load of a key completes: the value is stored and the loader entry dropped
\* in one step, and every waiter gets the value
LoadOk(l) ==
    /\ l \in loaders
    /\ LET data == get_tile(AppSources[l.id], l.query_obj)
       IN  /\ cache' = Insert(l.key, data)
           /\ rq' = Settle(l.key, "got", data)
    /\ loaders' = loaders \ {l}
    /\ UNCHANGED calls
    /\ UNCHANGED tileVars

\* the load of a key fails: every waiter observes the error, nothing is stored
LoadErr(l) ==
    /\ l \in loaders
    /\ rq' = Settle(l.key, "failed", <<>>)
    /\ loaders' = loaders \ {l}
    /\ UNCHANGED <<cache, calls>>
    /\ UNCHANGED tileVars

\* try_join_all of requester r returns: the first error as a 500, or every tile,
\* and then the rest of get_tile_content and get_http_response
CacheRespond(r) ==
    /\ rq[r].pc = "fetching"
    /\ LET fetch == rq[r].fetch
           self == rq[r].made.self
       IN  IF \E i \in DOMAIN fetch : fetch[i].st = "failed"
           THEN rq' = [rq EXCEPT ![r].pc = "done",
                          ![r].out = Outcome(TileContent("failed", <<>>,
                              RecompressOut(Err(map_internal_error), FALSE,
                                            "notcalled")))]
           ELSE /\ \A i \in DOMAIN fetch : fetch[i].st = "got"
                /\ rq' = [rq EXCEPT ![r].pc = "done",
                          ![r].out = Outcome(get_tile_content(
                              DynTileSource(self.sources, self.info,
                                            rq[r].accept_enc, "None"),
                              [i \in DOMAIN fetch |-> fetch[i].data]))]
    /\ UNCHANGED <<cache, loaders, calls>>
    /\ UNCHANGED tileVars

NextCache ==
    \/ \E r \in Requesters : CacheNew(r)
    \/ \E r \in Requesters : \E i \in DOMAIN rq[r].fetch : Lookup(r, i)
    \/ \E l \in loaders : LoadOk(l)
    \/ \E l \in loaders : LoadErr(l)
    \/ \E r \in Requesters : CacheRespond(r)

SpecCache == InitCache /\ [][NextCache]_vars

(***************************************************************************)
(* PostGIS table sources: martin/src/pg/table_source.rs                    *)
(***************************************************************************)
DEFAULT_EXTENT == 4096

DEFAULT_BUFFER == 64

DEFAULT_CLIP_GEOM == TRUE

\* Option<i32> / Option<u32> / Option<usize>
NoneInt == [present |-> FALSE, v |-> 0]

SomeInt(n) == [present |-> TRUE, v |-> n]

\* Option<String>
NoneStr == [present |-> FALSE, v |-> ""]

SomeStr(x) == [present |-> TRUE, v |-> x]

\* Option<bool>
NoneBool == [present |-> FALSE, v |-> FALSE]

SomeBool(b) == [present |-> TRUE, v |-> b]

\* Option<BTreeMap<String, String>>: the keys in the map's (sorted) order
NoneProps == [present |-> FALSE, v |-> <<>>]

SomeProps(keys) == [present |-> TRUE, v |-> keys]

unwrap_or(opt, default) == IF opt.present THEN opt.v ELSE default

\* str::to_lowercase on the column names of the model
to_lowercase(x) ==
    CASE x = "ID" -> "id"
      [] x = "Name" -> "name"
      [] OTHER -> x

\* normalize_key: the column itself if the database has it, else the single
\* column that equals it in lower case, else nothing
normalize_key(props, key) ==
    IF key \in props THEN SomeStr(key)
    ELSE LET same == {k \in props : to_lowercase(k) = to_lowercase(key)}
         IN  IF Cardinality(same) = 1 THEN SomeStr(CHOOSE k \in same : TRUE)
             ELSE NoneStr

\* the default taken whenever the configured SRID is 0
calc_srid_mut(db_srid, cfg_srid, default_srid) ==
    IF cfg_srid = 0 /\ default_srid.present THEN SomeInt(default_srid.v)
    ELSE IF db_srid = 0 /\ cfg_srid = 0 THEN NoneInt
    ELSE IF db_srid = 0 THEN SomeInt(cfg_srid)
    ELSE IF cfg_srid = 0 THEN SomeInt(db_srid)
    ELSE IF db_srid # cfg_srid THEN NoneInt
    ELSE SomeInt(cfg_srid)

\* calc_srid: the match arms in order
calc_srid(db_srid, cfg_srid, default_srid) ==
    IF db_srid = 0 /\ cfg_srid = 0 /\ default_srid.present THEN SomeInt(default_srid.v)
    ELSE IF db_srid = 0 /\ cfg_srid = 0 THEN NoneInt
    ELSE IF db_srid = 0 THEN SomeInt(cfg_srid)
    ELSE IF cfg_srid = 0 THEN SomeInt(db_srid)
    ELSE IF db_srid # cfg_srid THEN NoneInt
    ELSE SomeInt(cfg_srid)

\* TableInfo: the fields the builder and merge_table_info read; geometry_index,
\* is_view and geometry_type start as None
TableInfo(schema, table, geometry_column, srid, extent, buffer, clip_geom, id_column, properties, layer_id) ==
    [schema |-> schema, table |-> table, geometry_column |-> geometry_column,
     srid |-> srid, extent |-> extent, buffer |-> buffer, clip_geom |-> clip_geom,
     id_column |-> id_column, properties |-> properties, layer_id |-> layer_id,
     geometry_index |-> NoneBool, is_view |-> NoneBool, geometry_type |-> NoneStr,
     prop_mapping |-> {}]

\* the keys whose normalization merge_table_info asks for
MappedKeys(cfg_inf) ==
    (IF cfg_inf.id_column.present THEN {cfg_inf.id_column.v} ELSE {}) \cup
    (IF cfg_inf.properties.present
     THEN {cfg_inf.properties.v[k] : k \in DOMAIN cfg_inf.properties.v} ELSE {})

\* merge_table_info dropping the source on a geometry type mismatch and
\* keeping the configured geometry_index and is_view
merge_table_info_mut(default_srid, cfg_inf, db_inf) ==
    LET srid == calc_srid(db_inf.srid, cfg_inf.srid, default_srid)
        props == {db_inf.properties.v[k] : k \in DOMAIN db_inf.properties.v}
    IN  IF ~srid.present THEN [present |-> FALSE, v |-> cfg_inf]
        ELSE IF /\ db_inf.geometry_type.present
                /\ cfg_inf.geometry_type.present
                /\ db_inf.geometry_type # cfg_inf.geometry_type
        THEN [present |-> FALSE, v |-> cfg_inf]
        ELSE IF \E key \in MappedKeys(cfg_inf) : ~normalize_key(props, key).present
        THEN [present |-> FALSE, v |-> cfg_inf]
        ELSE [present |-> TRUE,
              v |-> [cfg_inf EXCEPT
                       !.schema = db_inf.schema,
                       !.table = db_inf.table,
                       !.geometry_column = db_inf.geometry_column,
                       !.srid = srid.v,
                       !.prop_mapping =
                           {Pair(key, normalize_key(props, key).v) :
                               key \in MappedKeys(cfg_inf)}]]

\* merge_table_info: None (present = FALSE) drops the source. The struct
\* literal takes schema, table, geometry_column, geometry_index, is_view from
\* db_inf, the SRID from calc_srid and the rest from cfg_inf; a geometry type
\* mismatch only warns
merge_table_info(default_srid, cfg_inf, db_inf) ==
    LET srid == calc_srid(db_inf.srid, cfg_inf.srid, default_srid)
        props == {db_inf.properties.v[k] : k \in DOMAIN db_inf.properties.v}
    IN  IF ~srid.present THEN [present |-> FALSE, v |-> cfg_inf]
        ELSE IF \E key \in MappedKeys(cfg_inf) : ~normalize_key(props, key).present
        THEN [present |-> FALSE, v |-> cfg_inf]
        ELSE [present |-> TRUE,
              v |-> [cfg_inf EXCEPT
                       !.schema = db_inf.schema,
                       !.table = db_inf.table,
                       !.geometry_column = db_inf.geometry_column,
                       !.geometry_index = db_inf.geometry_index,
                       !.is_view = db_inf.is_view,
                       !.srid = srid.v,
                       !.prop_mapping =
                           {Pair(key, normalize_key(props, key).v) :
                               key \in MappedKeys(cfg_inf)}]]

\* a piece of SQL text: t is its kind, "call" for `name(`, "close" for `)`,
\* "param" for `$n::integer`, "ident" / "lit" for escaped text, "num", "bool",
\* "margin" for `margin => n/d`, "kw" for other fixed text
Tok(t, x, n, d) == [t |-> t, x |-> x, n |-> n, d |-> d]

Kw(x) == Tok("kw", x, 0, 0)

Fn(name) == Tok("call", name, 0, 0)

Close == Tok("close", ")", 0, 0)

Param(n) == Tok("param", "", n, 0)

Num(n) == Tok("num", "", n, 0)

Bool(b) == Tok("bool", IF b THEN "true" ELSE "false", 0, 0)

escape_identifier(x) == Tok("ident", x, 0, 0)

escape_literal(x) == Tok("lit", x, 0, 0)

\* `margin => {margin}` with margin = buffer / extent as f64
Margin(buffer, extent) == Tok("margin", "", buffer, extent)

\* HashMap::get(field).map_or(field, ..)
Column(mapping, field) ==
    IF \E m \in mapping : m.k = field
    THEN (CHOOSE m \in mapping : m.k = field).v
    ELSE field

escape_with_alias(mapping, field) ==
    LET column == Column(mapping, field)
    IN  IF field = column
        THEN <<Kw(","), escape_identifier(column)>>
        ELSE <<Kw(","), escape_identifier(column), Kw("AS"), escape_identifier(field)>>

RECURSIVE Properties(_, _)
\* props.keys().map(escape_with_alias).collect::<String>()
Properties(mapping, keys) ==
    IF keys = <<>> THEN <<>>
    ELSE escape_with_alias(mapping, Head(keys)) \o Properties(mapping, Tail(keys))

\* ST_TileEnvelope($1::integer, $2::integer, $3::integer{extra})
TileEnvelope(extra) ==
    <<Fn("ST_TileEnvelope"), Param(1), Param(2), Param(3)>> \o extra \o <<Close>>

\* PgPool::supports_tile_margin
supports_tile_margin(pool) == pool.margin

\* the margin form whenever the pool supports it, a zero buffer included
bbox_search_mut(buffer, extent, pool) ==
    IF supports_tile_margin(pool)
    THEN TileEnvelope(<<Margin(buffer, extent)>>)
    ELSE TileEnvelope(<<>>)

\* the bbox_search expression of table_to_query
bbox_search(buffer, extent, pool) ==
    IF buffer = 0 THEN TileEnvelope(<<>>)
    ELSE IF supports_tile_margin(pool)
    THEN TileEnvelope(<<Margin(buffer, extent)>>)
    ELSE TileEnvelope(<<>>)

\* the query with the clip envelope of ST_AsMVTGeom left out
table_to_query_mut(id, info, pool, max_feature_count) ==
    <<Kw("SELECT"), Fn("ST_AsMVT"), Kw("tile"), Close>> \o
    bbox_search(unwrap_or(info.buffer, DEFAULT_BUFFER),
                unwrap_or(info.extent, DEFAULT_EXTENT), pool)

\* the query text table_to_query makes of the TableInfo
table_to_query(id, info, pool, max_feature_count) ==
    LET schema == escape_identifier(info.schema)
        table == escape_identifier(info.table)
        geometry_column == escape_identifier(info.geometry_column)
        srid == info.srid
        properties == IF info.properties.present
                      THEN Properties(info.prop_mapping, info.properties.v)
                      ELSE <<>>
        id_name == IF info.id_column.present
                   THEN <<Kw(","), escape_literal(info.id_column.v)>>
                   ELSE <<>>
        id_field == IF info.id_column.present
                    THEN escape_with_alias(info.prop_mapping, info.id_column.v)
                    ELSE <<>>
        extent == unwrap_or(info.extent, DEFAULT_EXTENT)
        buffer == unwrap_or(info.buffer, DEFAULT_BUFFER)
        limit_clause == IF max_feature_count.present
                        THEN <<Kw("LIMIT"), Num(max_feature_count.v)>>
                        ELSE <<>>
        layer_id == escape_literal(unwrap_or(info.layer_id, id))
        clip_geom == unwrap_or(info.clip_geom, DEFAULT_CLIP_GEOM)
    IN  <<Kw("SELECT"), Fn("ST_AsMVT"), Kw("tile"), Kw(","), layer_id, Kw(","),
          Num(extent), Kw(","), Kw("'geom'")>> \o id_name \o <<Close>> \o
        <<Kw("FROM ("), Kw("SELECT"), Fn("ST_AsMVTGeom"),
          Fn("ST_Transform"), Fn("ST_CurveToLine"), geometry_column, Close,
          Kw(","), Num(3857), Close, Kw(",")>> \o
        TileEnvelope(<<>>) \o
        <<Kw(","), Num(extent), Kw(","), Num(buffer), Kw(","), Bool(clip_geom),
          Close, Kw("AS geom")>> \o
        id_field \o properties \o
        <<Kw("FROM"), schema, Kw("."), table, Kw("WHERE"), geometry_column,
          Kw("&&"), Fn("ST_Transform")>> \o
        bbox_search(buffer, extent, pool) \o
        <<Kw(","), Num(srid), Close>> \o
        limit_clause \o
        <<Kw(") AS tile;")>>

\* the SRIDs of the model: unset, WGS 84, web mercator
Srids == {0, 4326, 3857}

\* configured or database names, one that reads like a piece of the query
Names == {"points", "$1"}

\* the configured table sources and what the database reports for them
InitPg ==
    /\ \E db_srid \in Srids, cfg_srid \in Srids :
       \E default_srid \in {NoneInt, SomeInt(4326), SomeInt(3857)} :
       \E extent \in {NoneInt, SomeInt(512)} :
       \E buffer \in {NoneInt, SomeInt(0), SomeInt(8)} :
       \E id_column \in {NoneStr, SomeStr("ID"), SomeStr("gid")} :
       \E properties \in {NoneProps, SomeProps(<<"Name", "id">>)} :
       \E name \in Names, margin \in BOOLEAN :
       \E max_feature_count \in {NoneInt, SomeInt(1000)} :
       \E is_view \in BOOLEAN :
       \E geometry_type \in {NoneStr, SomeStr("POINT"), SomeStr("POLYGON")} :
           pg = [stage |-> "config",
                 id |-> "src",
                 default_srid |-> default_srid,
                 db_inf |-> [TableInfo("public", name, "geom", db_srid, NoneInt,
                                        NoneInt, NoneBool, NoneStr,
                                        SomeProps(<<"id", "name">>), NoneStr)
                             EXCEPT !.geometry_index = SomeBool(~is_view),
                                    !.is_view = SomeBool(is_view),
                                    !.geometry_type = SomeStr("POINT")],
                 cfg_inf |-> [TableInfo("public", name, "geom", cfg_srid, extent,
                                         buffer, NoneBool, id_column, properties,
                                         NoneStr)
                              EXCEPT !.geometry_type = geometry_type],
                 pool |-> [margin |-> margin],
                 max_feature_count |-> max_feature_count,
                 srid |-> NoneInt,
                 merged |-> [present |-> FALSE,
                             v |-> TableInfo("", "", "", 0, NoneInt, NoneInt,
                                              NoneBool, NoneStr, NoneProps, NoneStr)],
                 sql |-> <<>>]
    /\ rq = [r \in Requesters |-> IdleRequester]
    /\ cache = <<>>
    /\ loaders = {}
    /\ calls = <<>>
    /\ font = NoFonts
    /\ req = NoRequest
    /\ made = NotMade
    /\ src = DynTileSource(<<>>, NotMade.self.info, NoHeader, "None")
    /\ pending = {}
    /\ done = <<>>
    /\ pc = "idle"
    /\ out = NoOutcome

\* the configured source is merged with the database's TableInfo, or dropped
MergeTableInfo ==
    /\ pg.stage = "config"
    /\ LET inf == merge_table_info(pg.default_srid, pg.cfg_inf, pg.db_inf)
       IN  pg' = [pg EXCEPT !.stage = IF inf.present THEN "merged" ELSE "dropped",
                            !.srid = calc_srid(pg.db_inf.srid, pg.cfg_inf.srid,
                                               pg.default_srid),
                            !.merged = [present |-> inf.present,
                                        v |-> IF inf.present THEN inf.v ELSE @.v]]
    /\ UNCHANGED <<src, pending, done, pc, out, req, made, font>>
    /\ UNCHANGED cacheVars

\* table_to_query on the merged TableInfo (bounds not computed: BoundsCalcType::Skip)
TableToQuery ==
    /\ pg.stage = "merged"
    /\ pg' = [pg EXCEPT !.stage = "built",
                        !.sql = table_to_query(pg.id, pg.merged.v, pg.pool,
                                      pg.max_feature_count)]
    /\ UNCHANGED <<src, pending, done, pc, out, req, made, font>>
    /\ UNCHANGED cacheVars

NextPg ==
    \/ MergeTableInfo
    \/ TableToQuery

SpecPg == InitPg /\ [][NextPg]_vars

(***************************************************************************)
(* table_to_query with its bounds computation (lines 110-130)              *)
(***************************************************************************)
\* Option<Bounds>: v is 0 for None, else the box
NoBounds == [present |-> FALSE, v |-> 0]

SomeBounds(b) == [present |-> TRUE, v |-> b]

\* BoundsCalcType
BoundsCalcTypes == {"Skip", "Quick", "Calc"}

\* the TableInfo the bounds are computed for
BoundsTable ==
    TableInfo("public", "points", "geom", 4326, NoneInt, NoneInt, NoneBool, NoneStr,
              NoneProps, NoneStr)

\* one call of table_to_query:
\*   stage  "merged" (not called) | "bounds" (suspended on the bounds future) |
\*          "built" (returned Ok) | "failed" (returned Err)
\*   fut    the calc_bounds future: "none" (never made) | "conn" (waiting for
\*          pool.get) | "query" (statement sent, waiting for the row) |
\*          "ok" | "err" (completed) | "dropped"
\*   stmt   the bounds statement on the server: "none" | "running" | "finished"
InitBounds ==
    /\ \E bounds_type \in BoundsCalcTypes :
       \E bounds \in {NoBounds, SomeBounds(1)} :
       \E margin \in BOOLEAN :
       \E max_feature_count \in {NoneInt, SomeInt(1000)} :
       \E buffer \in {NoneInt, SomeInt(0)} :
           pg = [stage |-> "merged",
                 id |-> "src",
                 bounds_type |-> bounds_type,
                 info |-> [BoundsTable EXCEPT !.buffer = buffer],
                 bounds0 |-> bounds,
                 bounds |-> bounds,
                 pool |-> [margin |-> margin],
                 max_feature_count |-> max_feature_count,
                 fut |-> "none",
                 stmt |-> "none",
                 timed_out |-> FALSE,
                 sql |-> <<>>]
    /\ rq = [r \in Requesters |-> IdleRequester]
    /\ cache = <<>>
    /\ loaders = {}
    /\ calls = <<>>
    /\ font = NoFonts
    /\ req = NoRequest
    /\ made = NotMade
    /\ src = DynTileSource(<<>>, NotMade.self.info, NoHeader, "None")
    /\ pending = {}
    /\ done = <<>>
    /\ pc = "idle"
    /\ out = NoOutcome

\* the rest of table_to_query once the bounds are settled: Ok((id, sql, info))
Returned(state, bounds) ==
    [state EXCEPT !.stage = "built",
                  !.bounds = bounds,
                  !.sql = table_to_query(state.id, state.info, state.pool,
                                         state.max_feature_count)]

\* the `if info.bounds.is_none()` test left out: the bounds are always computed
BeginTableToQuery_mut ==
    /\ pg.stage = "merged"
    /\ pg' = IF pg.bounds_type = "Skip"
             THEN Returned(pg, pg.bounds)
             ELSE [pg EXCEPT !.stage = "bounds", !.fut = "conn"]
    /\ UNCHANGED <<src, pending, done, pc, out, req, made, font>>
    /\ UNCHANGED cacheVars

\* table_to_query up to its first suspension: with bounds set or in Skip mode it
\* runs to its end; otherwise calc_bounds is called and awaited (pool.get first)
BeginTableToQuery ==
    /\ pg.stage = "merged"
    /\ pg' = IF pg.bounds.present \/ pg.bounds_type = "Skip"
             THEN Returned(pg, pg.bounds)
             ELSE [pg EXCEPT !.stage = "bounds", !.fut = "conn"]
    /\ UNCHANGED <<src, pending, done, pc, out, req, made, font>>
    /\ UNCHANGED cacheVars

\* calc_bounds: pool.get() yields a connection and the statement is sent
PoolGetOk ==
    /\ pg.stage = "bounds"
    /\ pg.fut = "conn"
    /\ pg' = [pg EXCEPT !.fut = "query", !.stmt = "running"]
    /\ UNCHANGED <<src, pending, done, pc, out, req, made, font>>
    /\ UNCHANGED cacheVars

\* calc_bounds fails (pool.get()? or query_one ...?): `bounds.await?` in Calc
\* mode and `bounds?` in Quick mode return the error
CalcBoundsErr ==
    /\ pg.stage = "bounds"
    /\ pg.fut \in {"conn", "query"}
    /\ pg' = [pg EXCEPT !.stage = "failed", !.fut = "err",
                        !.stmt = IF pg.fut = "query" THEN "finished" ELSE @]
    /\ UNCHANGED <<src, pending, done, pc, out, req, made, font>>
    /\ UNCHANGED cacheVars

\* calc_bounds completes with the row: info.bounds is what it yields (None for
\* a table with no extent), and table_to_query runs to its end
CalcBoundsOk ==
    /\ pg.stage = "bounds"
    /\ pg.fut = "query"
    /\ \E b \in {NoBounds, SomeBounds(2)} :
          pg' = [Returned(pg, b) EXCEPT !.fut = "ok", !.stmt = "finished"]
    /\ UNCHANGED <<src, pending, done, pc, out, req, made, font>>
    /\ UNCHANGED cacheVars

\* the future outlives the call: it is left as it was, still able to complete
Timeout_mut ==
    /\ pg.stage = "bounds"
    /\ pg.bounds_type = "Quick"
    /\ pg.fut \in {"conn", "query"}
    /\ pg' = [Returned(pg, pg.bounds) EXCEPT !.timed_out = TRUE]
    /\ UNCHANGED <<src, pending, done, pc, out, req, made, font>>
    /\ UNCHANGED cacheVars

\* Quick mode: the timer of timeout(DEFAULT_BOUNDS_TIMEOUT, &mut bounds) fires
\* first.  The warning is logged, the pinned future goes out of scope at the
\* end of the else block and is dropped unfinished, and table_to_query runs to
\* its end with the bounds as they were
Timeout ==
    /\ pg.stage = "bounds"
    /\ pg.bounds_type = "Quick"
    /\ pg.fut \in {"conn", "query"}
    /\ pg' = [Returned(pg, pg.bounds) EXCEPT !.timed_out = TRUE, !.fut = "dropped"]
    /\ UNCHANGED <<src, pending, done, pc, out, req, made, font>>
    /\ UNCHANGED cacheVars

\* a statement whose future was dropped ends on the server, unread
StatementEnds ==
    /\ pg.fut = "dropped"
    /\ pg.stmt = "running"
    /\ pg' = [pg EXCEPT !.stmt = "finished"]
    /\ UNCHANGED <<src, pending, done, pc, out, req, made, font>>
    /\ UNCHANGED cacheVars

NextBounds ==
    \/ BeginTableToQuery
    \/ PoolGetOk
    \/ CalcBoundsErr
    \/ CalcBoundsOk
    \/ Timeout
    \/ StatementEnds

SpecBounds == InitBounds /\ [][NextBounds]_vars

(***************************************************************************)
(* Fonts: resolve_fonts / recurse_dirs and FontSources::get_font_range     *)
(***************************************************************************)
\* a string is the sequence of its characters
\* the greatest codepoint the fonts are asked for
MAX_UNICODE_CP == 65535

\* codepoints per glyph range
CP_RANGE_SIZE == 256

\* the highest range id
MAX_UNICODE_CP_RANGE_ID == MAX_UNICODE_CP \div CP_RANGE_SIZE

\* the faces scanned by one resolve_fonts
MaxFaces == 2

\* the font ids of one glyph range request
MaxIds == 3

\* Option<String> of a face
NoText == [present |-> FALSE, v |-> <<>>]

SomeText(s) == [present |-> TRUE, v |-> s]

\* a face of a font file: chars are the codepoints with a glyph
\* (get_char_index(cp) != 0)
Face(path, face_index, family, style, chars) ==
    [path |-> path, face_index |-> face_index, family |-> family,
     style |-> style, chars |-> chars]

\* name.replace(['/', ','], " ")
replace(name) ==
    [i \in DOMAIN name |-> IF name[i] \in {"/", ","} THEN " " ELSE name[i]]

\* Regex \s+ over the characters of the model
is_whitespace(ch) == ch \in {" ", "\t"}

\* RE_SPACES.replace_all(name, " "): every run of whitespace becomes one space
RECURSIVE replace_all(_)
replace_all(name) ==
    IF name = <<>> THEN <<>>
    ELSE IF ~is_whitespace(Head(name)) THEN <<Head(name)>> \o replace_all(Tail(name))
    ELSE IF Len(name) > 1 /\ is_whitespace(name[2]) THEN replace_all(Tail(name))
    ELSE <<" ">> \o replace_all(Tail(name))

\* the canonical name of a face that has a family name (lines 115-126)
font_name(face) ==
    replace_all(replace(face.family.v \o
        (IF face.style.present THEN <<" ">> \o face.style.v ELSE <<>>)))

\* the body of the loop of get_available_codepoints for one cp
codepoint_step(acc, cp, chars) ==
    IF cp \in chars
    THEN [acc EXCEPT !.codepoints = @ \cup {cp},
                     !.count = @ + 1,
                     !.first = IF @.present THEN @ ELSE SomeInt(cp)]
    ELSE IF acc.first.present
    THEN [acc EXCEPT !.spans = Append(@, <<acc.first.v, cp - 1>>),
                     !.first = NoneInt]
    ELSE acc

\* the loop over the codepoints in todo, in increasing order
RECURSIVE codepoint_loop(_, _, _)
codepoint_loop(acc, todo, chars) ==
    IF todo = {} THEN acc
    ELSE LET cp == CHOOSE c \in todo : \A d \in todo : c <= d
         IN  codepoint_loop(codepoint_step(acc, cp, chars), todo \ {cp}, chars)

\* get_available_codepoints: for cp in 0..=MAX_UNICODE_CP. The body changes
\* nothing at a cp that has no glyph while no span is open, so the loop is run
\* over the codepoints with a glyph and the codepoint after each of them
get_available_codepoints(face) ==
    LET todo == {cp \in face.chars \cup {c + 1 : c \in face.chars} :
                    cp >= 0 /\ cp <= MAX_UNICODE_CP}
        acc == codepoint_loop([codepoints |-> {}, count |-> 0, spans |-> <<>>,
                               first |-> NoneInt], todo, face.chars)
    IN  [present |-> acc.count # 0, codepoints |-> acc.codepoints,
         count |-> acc.count, ranges |-> acc.spans]

FontEntry(family, style, total_glyphs, start, end) ==
    [family |-> family, style |-> style, total_glyphs |-> total_glyphs,
     start |-> start, end |-> end]

FontSource(path, face_index, codepoints) ==
    [path |-> path, face_index |-> face_index, codepoints |-> codepoints]

\* HashMap::insert / VacantEntry::insert: maps are sets of [name, v]
map_insert(map, name, v) ==
    {e \in map : e.name # name} \cup {[name |-> name, v |-> v]}

contains_key(map, name) == \E e \in map : e.name = name

map_get(map, name) == (CHOOSE e \in map : e.name = name).v

\* the two maps recurse_dirs fills, and how it has gone so far: "ok",
\* "MissingFamilyName" (Err) or "panic" (unwrap of None at line 144)
Registry(fonts, catalog, status) ==
    [fonts |-> fonts, catalog |-> catalog, status |-> status]

\* one face of recurse_dirs with a duplicate name replacing the entry
scan_face_mut(reg, face) ==
    IF ~face.family.present THEN [reg EXCEPT !.status = "MissingFamilyName"]
    ELSE LET name == font_name(face)
             found == get_available_codepoints(face)
         IN  IF ~found.present THEN reg
             ELSE IF found.ranges = <<>> THEN [reg EXCEPT !.status = "panic"]
             ELSE [reg EXCEPT
                     !.catalog = map_insert(@, name,
                         FontEntry(face.family.v, face.style, found.count,
                                   found.ranges[1][1],
                                   found.ranges[Len(found.ranges)][2])),
                     !.fonts = map_insert(@, name,
                         FontSource(face.path, face.face_index, found.codepoints))]

\* one face of recurse_dirs (lines 112-180)
scan_face(reg, face) ==
    IF ~face.family.present THEN [reg EXCEPT !.status = "MissingFamilyName"]
    ELSE LET name == font_name(face)
             found == get_available_codepoints(face)
         IN  IF contains_key(reg.fonts, name) THEN reg
             ELSE IF ~found.present THEN reg
             ELSE IF found.ranges = <<>> THEN [reg EXCEPT !.status = "panic"]
             ELSE [reg EXCEPT
                     !.catalog = map_insert(@, name,
                         FontEntry(face.family.v, face.style, found.count,
                                   found.ranges[1][1],
                                   found.ranges[Len(found.ranges)][2])),
                     !.fonts = map_insert(@, name,
                         FontSource(face.path, face.face_index, found.codepoints))]

\* recurse_dirs over the faces in scan order, stopping at the first failure
RECURSIVE recurse_dirs(_, _)
recurse_dirs(reg, faces) ==
    IF faces = <<>> \/ reg.status # "ok" THEN reg
    ELSE recurse_dirs(scan_face(reg, Head(faces)), Tail(faces))

\* the masks resolve_fonts builds (lines 233-242): one per 256 codepoints of
\* 0..=MAX_UNICODE_CP; a mask is kept as <<least, greatest>> of its codepoints
build_masks ==
    [i \in 1..(MAX_UNICODE_CP_RANGE_ID + 1) |->
        <<(i - 1) * CP_RANGE_SIZE, (i - 1) * CP_RANGE_SIZE + (CP_RANGE_SIZE - 1)>>]

FontSources(fonts, masks, catalog) ==
    [fonts |-> fonts, masks |-> masks, catalog |-> catalog]

\* FontSources::default()
DefaultFontSources == FontSources({}, <<>>, {})

\* resolve_fonts: config is None, or the faces found under the configured paths
resolve_fonts(config) ==
    IF ~config.present THEN [status |-> "ok", v |-> DefaultFontSources]
    ELSE LET reg == recurse_dirs(Registry({}, {}, "ok"), config.v)
         IN  IF reg.status # "ok"
             THEN [status |-> reg.status, v |-> DefaultFontSources]
             ELSE [status |-> "ok",
                   v |-> FontSources(reg.fonts, build_masks, reg.catalog)]

\* ---- get_font_range ----
\* Result<Vec<u8>, FontError>, or a panic: kind is "ok", "err" or "panic".
\* The bytes are kept as the Glyphs message they encode: its stacks, none for
\* Vec::new(). validated tells that the range checks passed, lookups are the
\* ids handed to self.fonts.get
FontResult(kind, error, args, id, stacks, validated, lookups) ==
    [kind |-> kind, error |-> error, args |-> args, id |-> id, stacks |-> stacks,
     validated |-> validated, lookups |-> lookups]

\* the range checks with the length tested first
check_range_mut(start, end) ==
    IF start > end THEN "InvalidFontRangeStartEnd"
    ELSE IF (end - start) # (CP_RANGE_SIZE - 1) THEN "InvalidFontRange"
    ELSE IF start % CP_RANGE_SIZE # 0 THEN "InvalidFontRangeStart"
    ELSE IF end % CP_RANGE_SIZE # (CP_RANGE_SIZE - 1) THEN "InvalidFontRangeEnd"
    ELSE "ok"

\* the range checks of get_font_range (lines 283-294); start <= end when the
\* difference is taken, so the u32 subtraction does not wrap
check_range(start, end) ==
    IF start > end THEN "InvalidFontRangeStartEnd"
    ELSE IF start % CP_RANGE_SIZE # 0 THEN "InvalidFontRangeStart"
    ELSE IF end % CP_RANGE_SIZE # (CP_RANGE_SIZE - 1) THEN "InvalidFontRangeEnd"
    ELSE IF (end - start) # (CP_RANGE_SIZE - 1) THEN "InvalidFontRange"
    ELSE "ok"

\* the arguments each error carries
range_error_args(error, start, end) ==
    CASE error = "InvalidFontRangeStart" -> <<start>>
      [] error = "InvalidFontRangeEnd" -> <<end>>
      [] OTHER -> <<start, end>>

\* ids.split(','): at least one piece, empty pieces kept
RECURSIVE split(_, _)
split(ids, piece) ==
    IF ids = <<>> THEN <<piece>>
    ELSE IF Head(ids) = "," THEN <<piece>> \o split(Tail(ids), <<>>)
    ELSE split(Tail(ids), Append(piece, Head(ids)))

\* the filter_map closure collected into a Result, with a font that adds
\* nothing kept in the list
RECURSIVE select_fonts_mut(_, _, _, _)
select_fonts_mut(self, ids, needed, acc) ==
    IF ids = <<>> THEN acc
    ELSE LET id == Head(ids)
             looked == [acc EXCEPT !.lookups = Append(@, id)]
         IN  IF ~contains_key(self.fonts, id)
             THEN [looked EXCEPT !.found = FALSE, !.id = id]
             ELSE LET v == map_get(self.fonts, id)
                      ds == needed \cap v.codepoints
                  IN  select_fonts_mut(self, Tail(ids), needed \ v.codepoints,
                          [looked EXCEPT !.fonts =
                              Append(@, [id |-> id, font |-> v, ds |-> ds])])

\* the filter_map closure (lines 299-311) collected into a Result (312): the
\* fonts that still add a codepoint, each with the codepoints it adds; the
\* first id that is not registered ends the iteration
RECURSIVE select_fonts(_, _, _, _)
select_fonts(self, ids, needed, acc) ==
    IF ids = <<>> THEN acc
    ELSE LET id == Head(ids)
             looked == [acc EXCEPT !.lookups = Append(@, id)]
         IN  IF ~contains_key(self.fonts, id)
             THEN [looked EXCEPT !.found = FALSE, !.id = id]
             ELSE LET v == map_get(self.fonts, id)
                      ds == needed \cap v.codepoints
                  IN  IF ds = {}
                      THEN select_fonts(self, Tail(ids), needed, looked)
                      ELSE select_fonts(self, Tail(ids), needed \ v.codepoints,
                               [looked EXCEPT !.fonts =
                                   Append(@, [id |-> id, font |-> v, ds |-> ds])])

\* a bit set read in increasing order
RECURSIVE iter(_)
iter(ds) ==
    IF ds = {} THEN <<>>
    ELSE LET cp == CHOOSE c \in ds : \A d \in ds : c <= d
         IN  <<cp>> \o iter(ds \ {cp})

\* render_sdf_glyph: the glyph of cp drawn from a face
Glyph(cp, source) ==
    [id |-> cp, path |-> source.path, face_index |-> source.face_index]

\* the loop over the selected fonts (lines 321-344): the name grows by ", "
\* and the id, the glyphs by those of the font's codepoints
RECURSIVE build_stack(_, _)
build_stack(stack, fonts) ==
    IF fonts = <<>> THEN stack
    ELSE LET f == Head(fonts)
             named == IF stack.has_name
                      THEN [stack EXCEPT !.name = @ \o <<",", " ">> \o f.id]
                      ELSE [stack EXCEPT !.name = f.id, !.has_name = TRUE]
             ds == iter(f.ds)
         IN  build_stack([named EXCEPT !.glyphs =
                             @ \o [k \in DOMAIN ds |-> Glyph(ds[k], f.font)]],
                         Tail(fonts))

\* Fontstack::new()
NewFontstack == [has_name |-> FALSE, name |-> <<>>, range |-> "", glyphs |-> <<>>]

\* format!("{start}-{end}")
format_range(start, end) == ToString(start) \o "-" \o ToString(end)

\* FontSources::get_font_range; lib_ok tells whether the FreeType calls
\* (Library::init, new_face, set_char_size, render_sdf_glyph) succeed
get_font_range(self, ids, start, end, lib_ok) ==
    LET checked == check_range(start, end)
        index == start \div CP_RANGE_SIZE
    IN  IF checked # "ok"
        THEN FontResult("err", checked, range_error_args(checked, start, end),
                        <<>>, <<>>, FALSE, <<>>)
        ELSE IF index + 1 \notin DOMAIN self.masks
        THEN FontResult("panic", "index out of bounds", <<index, Len(self.masks)>>,
                        <<>>, <<>>, TRUE, <<>>)
        ELSE LET mask == self.masks[index + 1]
                 sel == select_fonts(self, split(ids, <<>>), mask[1]..mask[2],
                            [found |-> TRUE, id |-> <<>>, fonts |-> <<>>,
                             lookups |-> <<>>])
             IN  IF ~sel.found
                 THEN FontResult("err", "FontNotFound", <<>>, sel.id, <<>>, TRUE,
                                 sel.lookups)
                 ELSE IF sel.fonts = <<>>
                 THEN FontResult("ok", "", <<>>, <<>>, <<>>, TRUE, sel.lookups)
                 ELSE IF ~lib_ok
                 THEN FontResult("err", "FreeType", <<>>, <<>>, <<>>, TRUE,
                                 sel.lookups)
                 ELSE FontResult("ok", "", <<>>, <<>>,
                          << [build_stack(NewFontstack, sel.fonts)
                                 EXCEPT !.range = format_range(start, end)] >>,
                          TRUE, sel.lookups)

\* ---- the scan of resolve_fonts, face by face ----
\* family names: missing, plain, and one with a slash
Families == {NoText, SomeText(<<"A">>), SomeText(<<"A", "/", "B">>)}

Styles == {NoText, SomeText(<<"B">>)}

\* the codepoints a face has glyphs for: none, one, some up to the last
\* codepoint asked for, the last one only
Coverages == {{}, {65}, {65, 65535}, {65535}}

\* Option<OneOrMany<PathBuf>>, as the faces found under the paths in scan order
NoConfig == [present |-> FALSE, v |-> <<>>]

SomeConfig(faces) == [present |-> TRUE, v |-> faces]

\* no glyph range asked for yet
NoFontResult == FontResult("none", "", <<>>, <<>>, <<>>, FALSE, <<>>)

\* the state of one resolve_fonts followed by one get_font_range
FontState(stage, config, scanned, reg, self) ==
    [stage |-> stage, config |-> config, scanned |-> scanned, reg |-> reg,
     self |-> self, ids |-> <<>>, start |-> 0, end |-> 0, lib_ok |-> TRUE,
     result |-> NoFontResult]

\* every variable but font at rest
FontsOnly ==
    /\ rq = [r \in Requesters |-> IdleRequester]
    /\ cache = <<>>
    /\ loaders = {}
    /\ calls = <<>>
    /\ pg = NoTable
    /\ req = NoRequest
    /\ made = NotMade
    /\ src = DynTileSource(<<>>, NotMade.self.info, NoHeader, "None")
    /\ pending = {}
    /\ done = <<>>
    /\ pc = "idle"
    /\ out = NoOutcome

\* resolve_fonts is called with no font paths, or with paths holding up to
\* MaxFaces faces
InitCatalog ==
    /\ \/ font = FontState("config", NoConfig, 0, Registry({}, {}, "ok"),
                           DefaultFontSources)
       \/ \E n \in 0..MaxFaces :
          \E family \in [1..n -> Families], style \in [1..n -> Styles] :
          \E chars \in [1..n -> Coverages] :
              font = FontState("config",
                         SomeConfig([i \in 1..n |->
                             Face(i, 0, family[i], style[i], chars[i])]),
                         0, Registry({}, {}, "ok"), DefaultFontSources)
    /\ FontsOnly

\* resolve_fonts without a configuration (lines 216-218)
ResolveDefault ==
    /\ font.stage = "config"
    /\ ~font.config.present
    /\ font' = [font EXCEPT !.stage = "resolved", !.self = DefaultFontSources]
    /\ UNCHANGED <<src, pending, done, pc, out, req, made, pg>>
    /\ UNCHANGED cacheVars

\* recurse_dirs reaches the next face
ScanFace ==
    /\ font.stage = "config"
    /\ font.config.present
    /\ font.scanned < Len(font.config.v)
    /\ LET reg == scan_face(font.reg, font.config.v[font.scanned + 1])
       IN  font' = IF reg.status = "ok"
                   THEN [font EXCEPT !.reg = reg, !.scanned = @ + 1]
                   ELSE [font EXCEPT !.reg = reg, !.stage = "failed"]
    /\ UNCHANGED <<src, pending, done, pc, out, req, made, pg>>
    /\ UNCHANGED cacheVars

\* every face is scanned: the masks are built and the FontSources returned
ResolveDone ==
    /\ font.stage = "config"
    /\ font.config.present
    /\ font.scanned = Len(font.config.v)
    /\ font' = [font EXCEPT !.stage = "resolved",
                            !.self = FontSources(font.reg.fonts, build_masks,
                                                 font.reg.catalog)]
    /\ UNCHANGED <<src, pending, done, pc, out, req, made, pg>>
    /\ UNCHANGED cacheVars

NextCatalog ==
    \/ ResolveDefault
    \/ ScanFace
    \/ ResolveDone

SpecCatalog == InitCatalog /\ [][NextCatalog]_vars

\* ---- glyph range requests ----
\* the font files of the requests: A and B overlap in range 0-255 and reach
\* into 256-511, C has one codepoint that A has too
FontDir ==
    << Face(1, 0, SomeText(<<"A">>), NoText, {65, 66, 300}),
       Face(2, 0, SomeText(<<"B">>), NoText, {66, 67, 256}),
       Face(3, 0, SomeText(<<"C">>), NoText, {65}) >>

\* the ids asked for; X is no font
FontIds == {<<"A">>, <<"B">>, <<"C">>, <<"X">>}

\* u32 values for start and end: around the ranges 0-255 and 256-511, the
\* last codepoint with a mask, the first range past it, and 2^31 - 1 for the
\* large ones (none of the operations on start and end wraps for a u32)
U32Values == {0, 1, 255, 256, 511, 65535, 65536, 65791, 2147483647}

\* the ids of a request joined by commas
RECURSIVE join_ids(_)
join_ids(list) ==
    IF list = <<>> THEN <<>>
    ELSE IF Len(list) = 1 THEN list[1]
    ELSE list[1] \o <<",">> \o join_ids(Tail(list))

\* the FontSources resolve_fonts returned, without and with font paths
InitFonts ==
    /\ \E config \in {NoConfig, SomeConfig(FontDir)} :
           font = FontState("resolved", config, Len(config.v),
                      Registry({}, {}, "ok"), resolve_fonts(config).v)
    /\ FontsOnly

\* GET /font/{ids}/{start}-{end}
GetFontRange ==
    /\ font.stage = "resolved"
    /\ \E n \in 0..MaxIds :
       \E list \in [1..n -> FontIds] :
       \E start \in U32Values, end \in U32Values, lib_ok \in BOOLEAN :
           font' = [font EXCEPT !.stage = "served",
                                !.ids = join_ids(list),
                                !.start = start,
                                !.end = end,
                                !.lib_ok = lib_ok,
                                !.result = get_font_range(font.self, join_ids(list),
                                               start, end, lib_ok)]
    /\ UNCHANGED <<src, pending, done, pc, out, req, made, pg>>
    /\ UNCHANGED cacheVars

NextFonts == GetFontRange

SpecFonts == InitFonts /\ [][NextFonts]_vars

(***************************************************************************)
(* Properties                                                              *)
(***************************************************************************)
Responded == pc = "done"

FetchFailed == \E k \in DOMAIN done : ~done[k].ok

\* the tiles of the listed sources, in listed order
ListedTiles == [i \in DOMAIN src.sources |-> src.sources[i].data]

NonEmptySources == {i \in DOMAIN src.sources : src.sources[i].data # <<>>}

Joinable == src.info.format = "Mvt" /\ src.info.encoding \in {"Uncompressed", "Gzip"}

\* C1: get_tile_content composes by the number of non-empty source results:
\* none -> a tile with empty data; one -> the bytes of that source alone;
\* two or more -> their concatenation iff the format is Mvt and the encoding is
\* Uncompressed or Gzip, and otherwise a 400 with no tile
C1_ComposeByCount ==
    (Responded /\ ~FetchFailed) =>
        LET n == Cardinality(NonEmptySources) IN
        /\ n = 0 => /\ out.content.res.ok
                    /\ out.content.res.tile.data = <<>>
        /\ n = 1 => /\ out.content.merge = "single"
                    /\ out.content.data = src.sources[CHOOSE i \in NonEmptySources : TRUE].data
        /\ (n >= 2 /\ Joinable) =>
                    /\ out.content.merge = "concat"
                    /\ out.content.data = Concat(ListedTiles)
                    /\ out.content.res.ok
        /\ (n >= 2 /\ ~Joinable) =>
                    /\ out.content.res = Err(400)
                    /\ out.resp.status = 400
                    /\ out.resp.body = <<>>

\* C1 witness: two non-empty Mvt/Gzip tiles around an empty one were concatenated
C1_Witness ==
    /\ Responded /\ ~FetchFailed
    /\ src.info = TileInfo("Mvt", "Gzip")
    /\ Len(src.sources) = 3
    /\ NonEmptySources = {1, 3}
    /\ out.content.merge = "concat"

C3_MergedInListedOrder ==
    (Responded /\ out.content.merge = "concat") =>
        out.content.data = Concat(ListedTiles)

\* C3 witness: the fetches completed in the reverse of the listed order, and the
\* merged data is in listed order, which differs from the completion order
C3_Witness ==
    /\ Responded /\ out.content.merge = "concat"
    /\ Len(src.sources) = 3
    /\ \A k \in 1..3 : done[k].idx = 4 - k
    /\ src.sources[1].data # src.sources[3].data
    /\ out.content.data = Concat(ListedTiles)
    /\ out.content.data # Concat([k \in 1..3 |-> done[k].data])

\* C4: once a per-source fetch has failed, the request is over, with a 500 and no
\* body built from the other sources' tiles
C4_FetchErrorFailsRequest ==
    FetchFailed =>
        /\ pc = "done"
        /\ out.resp.status = 500
        /\ out.resp.body = <<>>
        /\ ~out.content.res.ok

\* C4 witness: two sources returned non-empty tiles, then the third failed
C4_Witness ==
    /\ FetchFailed
    /\ Len(done) = 3
    /\ done[1].ok /\ done[1].data # <<>>
    /\ done[2].ok /\ done[2].data # <<>>
    /\ out.resp.status = 500

\* C5 as stated: every Tile get_tile_content returns with empty data has the
\* encoding Uncompressed
C5_EmptyTileIsUncompressed ==
    (Responded /\ out.content.res.ok /\ out.content.res.tile.data = <<>>) =>
        out.content.res.tile.info.encoding = "Uncompressed"

\* C6: get_http_response answers 204 with no body iff the tile's data is empty;
\* otherwise 200 with the Content-Type of the tile's format, the tile's data as
\* the body, and a Content-Encoding header iff the tile's final encoding is an
\* encoded one
C6_HttpResponse ==
    (Responded /\ out.content.res.ok) =>
        LET tile == out.content.res.tile IN
        /\ out.resp.status = 204 <=> tile.data = <<>>
        /\ out.resp.status = 204 => out.resp.body = <<>>
        /\ tile.data # <<>> =>
              /\ out.resp.status = 200
              /\ out.resp.body = tile.data
              /\ out.resp.content_type =
                    (CASE tile.info.format = "Mvt" -> "application/x-protobuf"
                       [] tile.info.format = "Png" -> "image/png"
                       [] tile.info.format = "Json" -> "application/json")
              /\ out.resp.content_encoding # "none"
                    <=> tile.info.encoding \in {"Gzip", "Zlib", "Brotli", "Zstd"}

\* C6 witness: a plain tile was compressed to brotli and answered 200 with
\* Content-Encoding: br
C6_Witness ==
    /\ Responded
    /\ src.info.encoding = "Uncompressed"
    /\ out.content.res.ok
    /\ out.resp.status = 200
    /\ out.resp.content_encoding = "br"

NoAcceptHeader == ~src.accept_enc.present

\* C7 as stated: with no Accept-Encoding header a non-empty tile is always
\* returned with the encoding Uncompressed (Gzip and Brotli decoded, Uncompressed
\* unchanged), and any other encoded form is a 400
C7_NoHeaderAlwaysUncompressed ==
    (Responded /\ ~FetchFailed /\ NoAcceptHeader /\ out.content.data # <<>>) =>
        /\ out.content.res.ok => out.content.res.tile.info.encoding = "Uncompressed"
        /\ src.info.encoding \in {"Zlib", "Zstd"} => out.content.res = Err(400)

\* C7 amended: with no Accept-Encoding header a non-empty tile is returned with
\* an encoding that is not an encoded one: a Gzip or Brotli tile is decoded to
\* Uncompressed, an Uncompressed tile and a tile of the image-container encoding
\* (Internal) are returned unchanged and never compressed, and a tile stored in
\* any other encoded form is a 400
C7_NoHeaderDecodes ==
    (Responded /\ ~FetchFailed /\ NoAcceptHeader /\ out.content.data # <<>>) =>
        LET res == out.content.res IN
        /\ src.info.encoding \in {"Gzip", "Brotli"} =>
              /\ res.ok /\ out.content.decoded
              /\ res.tile.info = TileInfo(src.info.format, "Uncompressed")
              /\ res.tile.data = RawBytes(Payload(out.content.data))
        /\ src.info.encoding \in {"Uncompressed", "Internal"} =>
              /\ res.ok /\ ~out.content.decoded
              /\ res.tile = Tile(out.content.data, src.info)
        /\ src.info.encoding \in {"Zlib", "Zstd"} => res = Err(400)
        /\ out.content.negotiated = "notcalled"
        /\ out.resp.content_encoding = "none"

\* C7 witness: a Brotli tile, no Accept-Encoding header, returned decoded
C7_Witness ==
    /\ Responded /\ ~FetchFailed /\ NoAcceptHeader
    /\ src.info.encoding = "Brotli"
    /\ out.content.data = <<Member("br", <<1>>)>>
    /\ out.content.res.ok
    /\ out.content.res.tile = Tile(<<Raw(1)>>, TileInfo("Mvt", "Uncompressed"))
    /\ out.resp.status = 200

\* the token naming a stored encoding in Accept-Encoding
HeaderToken(encoding) ==
    CASE encoding = "Gzip" -> "gzip"
      [] encoding = "Brotli" -> "br"
      [] encoding = "Zlib" -> "deflate"
      [] encoding = "Zstd" -> "zstd"
      [] OTHER -> "identity"

AcceptItems == src.accept_enc.items

\* C8 as stated: with an Accept-Encoding header and an encoded tile of encoding
\* E, the tile is kept as it is (same bytes, same encoding) iff some entry names
\* E with q > 0, and is decoded in every other case
C8_KeptIffNamedWithPositiveQ ==
    (/\ Responded /\ ~FetchFailed /\ src.accept_enc.present
     /\ src.info.encoding \in {"Gzip", "Zlib", "Brotli", "Zstd"}
     /\ out.content.data # <<>>) =>
        LET named == \E k \in DOMAIN AcceptItems :
                        /\ AcceptItems[k].item = HeaderToken(src.info.encoding)
                        /\ AcceptItems[k].quality > 0
            kept == /\ out.content.res.ok
                    /\ ~out.content.decoded
                    /\ out.content.res.tile = Tile(out.content.data, src.info)
        IN  /\ kept <=> named
            /\ ~named => out.content.decoded

\* the header gives the codec q=0: every entry naming it has q=0, or none names
\* it and every `*` entry has q=0
Refused(codec) ==
    LET named == {k \in DOMAIN AcceptItems : AcceptItems[k].item = codec}
        stars == {k \in DOMAIN AcceptItems : AcceptItems[k].item = "*"}
    IN  IF named # {} THEN \A k \in named : AcceptItems[k].quality = 0
        ELSE stars # {} /\ \A k \in stars : AcceptItems[k].quality = 0

\* C9 as stated: the tile returned is never gzip- or brotli-encoded when the
\* Accept-Encoding header gives that codec q=0
C9_NeverRefusedCodec ==
    (/\ Responded /\ src.accept_enc.present
     /\ out.content.res.ok /\ out.content.res.tile.data # <<>>) =>
        /\ Refused("gzip") => out.content.res.tile.info.encoding # "Gzip"
        /\ Refused("br") => out.content.res.tile.info.encoding # "Brotli"

\* the q values (> 0) with which the header lists a supported encoding
ListedQ(e) ==
    {AcceptItems[k].quality : k \in {j \in DOMAIN AcceptItems :
        AcceptItems[j].item = e /\ AcceptItems[j].quality > 0}}

Listed == {e \in {"gzip", "br", "identity"} : ListedQ(e) # {}}

BestQ(e) == CHOOSE m \in ListedQ(e) : \A q \in ListedQ(e) : q <= m

TopListed == {e \in Listed : \A f \in Listed : BestQ(f) <= BestQ(e)}

ServerCodec == IF src.preferred_enc = "Brotli" THEN "br" ELSE "gzip"

OtherCodec == IF src.preferred_enc = "Brotli" THEN "gzip" ELSE "br"

\* C10: among the supported encodings the client lists with q > 0, negotiate
\* selects one of the highest q; among several of the highest q it selects the
\* server's codec (gzip when none is configured), else the other compression
\* codec, else identity, whatever the order the entries are listed in
C10_HighestQThenPreference ==
    (Responded /\ out.content.negotiated # "notcalled" /\ Listed # {}) =>
        /\ out.content.negotiated \in TopListed
        /\ out.content.negotiated =
              (IF ServerCodec \in TopListed THEN ServerCodec
               ELSE IF OtherCodec \in TopListed THEN OtherCodec
               ELSE "identity")

\* C10 witness: the client lists br before gzip with the same q, no preference
\* is configured, and gzip is selected
C10_Witness ==
    /\ Responded
    /\ src.preferred_enc = "None"
    /\ AcceptItems = <<QualityItem("br", 500), QualityItem("gzip", 500)>>
    /\ out.content.negotiated = "gzip"
    /\ out.content.res.tile.info.encoding = "Gzip"

\* the Accept-Encoding list is empty or is the single entry `*`
EmptyOrSoleAny ==
    \/ AcceptItems = <<>>
    \/ Len(AcceptItems) = 1 /\ AcceptItems[1].item = "*"

ServerEncoding == IF src.preferred_enc = "Brotli" THEN "Brotli" ELSE "Gzip"

\* C11: when the Accept-Encoding list is empty or is the single entry `*`,
\* negotiate returns the server's codec (gzip when none is configured), and the
\* uncompressed non-empty tile is returned encoded with it
C11_EmptyOrAnyGivesPreferred ==
    (Responded /\ out.content.negotiated # "notcalled" /\ EmptyOrSoleAny) =>
        /\ out.content.negotiated = ServerCodec
        /\ out.content.res.ok
        /\ out.content.res.tile.info = TileInfo(src.info.format, ServerEncoding)
        /\ out.content.res.tile.data =
              <<Member(ServerCodec, Payload(out.content.data))>>
        /\ out.resp.content_encoding = ServerCodec

\* C11 witness: the header is the single entry `*`, brotli is configured, and a
\* plain tile is returned as one brotli stream
C11_Witness ==
    /\ Responded
    /\ src.preferred_enc = "Brotli"
    /\ Len(AcceptItems) = 1 /\ AcceptItems[1].item = "*"
    /\ src.info = TileInfo("Mvt", "Uncompressed")
    /\ out.content.data = <<Raw(1)>>
    /\ out.content.res.tile = Tile(<<Member("br", <<1>>)>>, TileInfo("Mvt", "Brotli"))

\* rank(P) of the negotiation table
TableRank(item) ==
    CASE item = ServerCodec -> 5
      [] item = OtherCodec -> 4
      [] item = "zstd" -> 3
      [] item = "deflate" -> 2
      [] item \in {"identity", "*"} -> 0
      [] OTHER -> 1

\* entry j comes before entry k in the order sorted by (quality desc, rank desc),
\* entries of the same quality and rank in listed order
ComesBefore(j, k) ==
    \/ AcceptItems[j].quality > AcceptItems[k].quality
    \/ /\ AcceptItems[j].quality = AcceptItems[k].quality
       /\ \/ TableRank(AcceptItems[j].item) > TableRank(AcceptItems[k].item)
          \/ /\ TableRank(AcceptItems[j].item) = TableRank(AcceptItems[k].item)
             /\ j < k

\* the entries with q > 0 that name gzip, brotli or identity
Candidates ==
    {k \in DOMAIN AcceptItems :
        /\ AcceptItems[k].quality > 0
        /\ AcceptItems[k].item \in {"gzip", "br", "identity"}}

IdentityOrAny == {k \in DOMAIN AcceptItems : AcceptItems[k].item \in {"identity", "*"}}

\* no identity or `*` entry, or the first of them in sorted order has q > 0
IdentityAcceptable ==
    \/ IdentityOrAny = {}
    \/ \E k \in IdentityOrAny :
          /\ \A j \in IdentityOrAny \ {k} : ComesBefore(k, j)
          /\ AcceptItems[k].quality > 0

\* C12: for a list that is neither empty nor the single entry `*`, negotiate
\* returns the first entry in sorted order with q > 0 that names gzip, brotli or
\* identity; if there is none, identity when identity is acceptable, and
\* otherwise nothing, and then the tile is returned uncompressed with no
\* Content-Encoding header.  The tile negotiate was called for is returned
\* Uncompressed, Gzip or Brotli
C12_FirstSupportedElseIdentity ==
    (Responded /\ out.content.negotiated # "notcalled" /\ ~EmptyOrSoleAny) =>
        /\ \A k \in Candidates :
              (\A j \in Candidates \ {k} : ComesBefore(k, j)) =>
                  out.content.negotiated = AcceptItems[k].item
        /\ (Candidates = {} /\ IdentityAcceptable) => out.content.negotiated = "identity"
        /\ (Candidates = {} /\ ~IdentityAcceptable) =>
              /\ out.content.negotiated = "none"
              /\ out.content.res.ok
              /\ out.content.res.tile.info.encoding = "Uncompressed"
              /\ out.resp.content_encoding = "none"
        /\ out.content.negotiated \in {"gzip", "br", "identity", "none"}
        /\ out.content.res.ok
        /\ out.content.res.tile.info.encoding \in {"Uncompressed", "Gzip", "Brotli"}
        /\ out.content.res.tile.info.encoding =
              (CASE out.content.negotiated = "gzip" -> "Gzip"
                 [] out.content.negotiated = "br" -> "Brotli"
                 [] OTHER -> "Uncompressed")

\* C12 witness: every supported codec is refused and so is identity: negotiate
\* returns nothing and the tile goes out uncompressed with no header
C12_Witness ==
    /\ Responded
    /\ AcceptItems = <<QualityItem("deflate", 1000), QualityItem("*", 0)>>
    /\ out.content.negotiated = "none"
    /\ out.content.res.tile.data # <<>>
    /\ out.resp.status = 200
    /\ out.resp.content_encoding = "none"

\* DynTileSource::new has returned
NewReturned == made.state # "none"

ListedIds == req.source_ids

Unregistered == \E i \in DOMAIN ListedIds : ListedIds[i] \notin DOMAIN AppSources

DifferingInfo ==
    \E i, j \in DOMAIN ListedIds :
        /\ ListedIds[i] \in DOMAIN AppSources
        /\ ListedIds[j] \in DOMAIN AppSources
        /\ AppSources[ListedIds[i]].info # AppSources[ListedIds[j]].info

\* the listed sources (of a request whose ids are all registered)
ListedSources == [i \in DOMAIN ListedIds |-> AppSources[ListedIds[i]]]

\* the source's valid zooms include the request's zoom
ZoomIncluded(source) ==
    req.zoom.present => (source.minzoom <= req.zoom.z /\ req.zoom.z <= source.maxzoom)

\* seq is made of entries of the listed sources at increasing positions
InListedOrder(seq) ==
    \E f \in [DOMAIN seq -> DOMAIN ListedIds] :
        /\ \A j \in DOMAIN seq : seq[j] = ListedSources[f[j]]
        /\ \A j, k \in DOMAIN seq : j < k => f[j] < f[k]

\* C13: source resolution answers 404 when any listed id is not registered and
\* 404 when two listed sources differ in TileInfo, whether or not the zoom
\* filter would drop them; otherwise no such error is raised and the sources
\* returned are listed sources in listed order (all of them when no zoom is given)
C13_ResolveChecksEveryListed ==
    NewReturned =>
        /\ Unregistered =>
              /\ made.state = "err" /\ made.status = 404
              /\ made.error \in {"Source does not exist", "Cannot merge sources"}
              /\ out.resp.status = 404
        /\ DifferingInfo =>
              /\ made.state = "err" /\ made.status = 404
              /\ made.error \in {"Source does not exist", "Cannot merge sources"}
              /\ out.resp.status = 404
        /\ ~(Unregistered \/ DifferingInfo) =>
              /\ made.error \notin {"Source does not exist", "Cannot merge sources"}
              /\ made.state = "ok" =>
                    /\ InListedOrder(made.self.sources)
                    /\ ~req.zoom.present => made.self.sources = ListedSources
                    /\ made.self.info = ListedSources[1].info

\* C13 witness: the second listed source differs in TileInfo and is outside the
\* requested zoom; the request is refused with 404
C13_Witness ==
    /\ req.source_ids = <<"a", "c">>
    /\ req.zoom = Zoom(2)
    /\ ~ZoomIncluded(AppSources["c"])
    /\ made.state = "err"
    /\ made.error = "Cannot merge sources"
    /\ out.resp.status = 404

\* the listed sources whose valid zooms include the request's zoom
KeptSources == SelectSeq(ListedSources, ZoomIncluded)

\* C14: when a zoom is given the sources kept are exactly the listed sources
\* whose valid zooms include it, in listed order; when none survives the answer
\* is 404 and no tile is fetched; with no zoom every listed source is kept
C14_ZoomFilter ==
    (NewReturned /\ ~Unregistered /\ ~DifferingInfo) =>
        /\ KeptSources = <<>> =>
              /\ made.state = "err" /\ made.status = 404
              /\ made.error = "No valid sources found"
              /\ out.resp.status = 404
              /\ done = <<>> /\ pending = {}
        /\ made.state = "ok" =>
              /\ made.self.sources = KeptSources
              /\ [i \in DOMAIN src.sources |-> src.sources[i].id] =
                    [i \in DOMAIN KeptSources |-> KeptSources[i].id]
        /\ (made.state = "ok" /\ ~req.zoom.present) =>
              made.self.sources = ListedSources
        /\ (KeptSources # <<>> /\ made.state = "err") => made.status = 400

\* C14 witness: of three listed sources the first is outside zoom 1; the other
\* two are fetched, in listed order
C14_Witness ==
    /\ req.source_ids = <<"q", "a", "b">>
    /\ req.zoom = Zoom(1)
    /\ made.state = "ok"
    /\ Len(made.self.sources) = 2
    /\ made.self.sources[1].id = "a" /\ made.self.sources[2].id = "b"
    /\ pc = "done"
    /\ Len(done) = 2

\* the per-source futures of requests that are inside try_join_all
Futures == Requesters \X (1..MaxSources)

Live(f) == rq[f[1]].pc = "fetching" /\ f[2] \in DOMAIN rq[f[1]].fetch

FetchOf(f) == rq[f[1]].fetch[f[2]]

\* a load is in flight for key
InFlight(key) == \E l \in loaders : l.key = key

\* this step invokes Source::get_tile
Invokes == Len(calls') = Len(calls) + 1

\* this step ends the load l
Ends(l) == l \in loaders /\ l \notin loaders'

\* the futures waiting for the load of key
Waiters(key) ==
    {f \in Futures : Live(f) /\ FetchOf(f).st = "waiting" /\ FetchOf(f).key = key}

\* every future that waits has a load in flight for its key, one load per key;
\* a request one of whose futures saw an error answers 500
C15_Shared ==
    /\ \A f \in Futures :
          (Live(f) /\ FetchOf(f).st = "waiting") => InFlight(FetchOf(f).key)
    /\ \A l1, l2 \in loaders : l1.key = l2.key => l1 = l2
    /\ \A r \in Requesters :
          (rq[r].pc = "done" /\ \E i \in DOMAIN rq[r].fetch : rq[r].fetch[i].st = "failed")
              => rq[r].out.resp.status = 500

\* get_tile is not invoked for a key whose load is in flight; a load that ends
\* either stores the tile and hands it to every waiter, or hands the error to
\* every waiter and leaves the cache as it was
C15_Step ==
    /\ Invokes => ~InFlight(calls'[Len(calls')].key)
    /\ ~Invokes => calls' = calls
    /\ \A l \in loaders : Ends(l) =>
          \/ /\ \E k \in DOMAIN cache' :
                   cache'[k] = Entry(l.key, get_tile(AppSources[l.id], l.query_obj))
             /\ \A f \in Waiters(l.key) :
                   /\ rq'[f[1]].fetch[f[2]].st = "got"
                   /\ rq'[f[1]].fetch[f[2]].data = get_tile(AppSources[l.id], l.query_obj)
          \/ /\ cache' = cache
             /\ \A f \in Waiters(l.key) : rq'[f[1]].fetch[f[2]].st = "failed"

\* C15: concurrent misses for one CacheKey share one load, so Source::get_tile
\* is invoked at most once for the key while its load is in flight; when the
\* load fails every waiter observes the error and no value is stored
C15_SingleFlight == []C15_Shared /\ [][C15_Step]_vars

\* C15 witness: two requests missed on the same key, get_tile was invoked once,
\* the load failed, both answered 500 and the cache is empty
C15_Witness ==
    /\ rq[1].pc = "done" /\ rq[2].pc = "done"
    /\ Len(rq[1].fetch) = 1 /\ Len(rq[2].fetch) = 1
    /\ rq[1].fetch[1].key = rq[2].fetch[1].key
    /\ {rq[1].fetch[1].via, rq[2].fetch[1].via} = {"load", "join"}
    /\ rq[1].fetch[1].st = "failed" /\ rq[2].fetch[1].st = "failed"
    /\ rq[1].out.resp.status = 500 /\ rq[2].out.resp.status = 500
    /\ Len(calls) = 1
    /\ cache = <<>>

\* the query string takes part in the requests of requester r
Participates(r) ==
    /\ \E j \in DOMAIN rq[r].req.source_ids :
          AppSources[rq[r].req.source_ids[j]].support_url_query
    /\ rq[r].req.query # <<>>

\* the key of (source, coordinate, query string) for the i-th kept source of r
KeyOf(r, i) ==
    IF Participates(r)
    THEN CacheKey("TileWithQuery", rq[r].made.self.sources[i].id, rq[r].req.zoom.z,
                  rq[r].req.query)
    ELSE CacheKey("Tile", rq[r].made.self.sources[i].id, rq[r].req.zoom.z, <<>>)

\* what the source returns for the request a key stands for
SourceBytes(key) ==
    get_tile(AppSources[key.id],
             IF key.tag = "TileWithQuery"
             THEN [present |-> TRUE, map |-> from_query(key.query).map]
             ELSE NoQueryObj)

TakesGzip(r) ==
    \E k \in DOMAIN rq[r].accept_enc.items : rq[r].accept_enc.items[k].item = "gzip"

\* the values stored are the sources' bytes, under keys of source, coordinate
\* and query string only; every response is encoded for its own client
C16_Stored ==
    /\ \A k \in DOMAIN cache :
          /\ DOMAIN cache[k].key = {"tag", "id", "xyz", "query"}
          /\ cache[k].value = SourceBytes(cache[k].key)
    /\ \A r \in Requesters :
          (rq[r].pc = "done" /\ rq[r].out.resp.status = 200) =>
              /\ rq[r].out.resp.content_encoding =
                    (IF TakesGzip(r) THEN "gzip" ELSE "none")
              /\ Payload(rq[r].out.resp.body) =
                    Payload(Concat([i \in DOMAIN rq[r].fetch |-> rq[r].fetch[i].data]))

\* a future that finds its key stored gets the stored value and the source is
\* not called
C16_Step ==
    \A f \in Futures :
        (/\ Live(f)
         /\ FetchOf(f).st = "todo"
         /\ rq'[f[1]].fetch[f[2]].st # "todo"
         /\ \E k \in DOMAIN cache : cache[k].key = KeyOf(f[1], f[2])) =>
            /\ calls' = calls
            /\ rq'[f[1]].fetch[f[2]].st = "got"
            /\ \E k \in DOMAIN cache :
                  /\ cache[k].key = KeyOf(f[1], f[2])
                  /\ rq'[f[1]].fetch[f[2]].data = cache[k].value

\* C16: the cached value is the bytes Source::get_tile returned, before merging
\* and recompress, and the key holds neither the Accept-Encoding nor the
\* preferred encoding: a request for a key that is stored is answered from the
\* stored value without calling the source, and encoded for its own header
C16_CachedBeforeRecompress == []C16_Stored /\ [][C16_Step]_vars

\* C16 witness: the gzip tile of source c was loaded once for the client that
\* sent no header, who got it decoded; the client that takes gzip was answered
\* from the stored value, as gzip
C16_Witness ==
    /\ rq[1].pc = "done" /\ rq[2].pc = "done"
    /\ rq[1].req.source_ids = <<"c">> /\ rq[2].req.source_ids = <<"c">>
    /\ rq[1].fetch[1].via = "load" /\ rq[2].fetch[1].via = "hit"
    /\ Len(calls) = 1
    /\ cache = <<Entry(CacheKey("Tile", "c", 0, <<>>), <<Member("gzip", <<3>>)>>)>>
    /\ rq[1].out.resp.content_encoding = "none"
    /\ rq[1].out.resp.body = <<Raw(3)>>
    /\ rq[2].out.resp.content_encoding = "gzip"
    /\ rq[2].out.resp.body = <<Member("gzip", <<3>>)>>

\* C17: the query string takes part exactly when a listed source supports URL
\* queries and the query string is not empty: then every source is fetched
\* with the parsed query under TileWithQuery(id, coord, query string), and
\* otherwise with no query under Tile(id, coord)
C17_QueryInKey ==
    /\ \A f \in Futures :
          (f[2] \in DOMAIN rq[f[1]].fetch /\ FetchOf(f).st # "todo") =>
              /\ FetchOf(f).key = KeyOf(f[1], f[2])
              /\ FetchOf(f).asked =
                    (IF Participates(f[1])
                     THEN [present |-> TRUE,
                           map |-> from_query(rq[f[1]].req.query).map]
                     ELSE NoQueryObj)
    /\ \A n \in DOMAIN calls :
          \E f \in Futures :
              /\ f[2] \in DOMAIN rq[f[1]].fetch
              /\ FetchOf(f).key = calls[n].key
              /\ FetchOf(f).asked = calls[n].query_obj
              /\ calls[n].key = KeyOf(f[1], f[2])
    /\ \A k \in DOMAIN cache :
          \E f \in Futures :
              /\ f[2] \in DOMAIN rq[f[1]].fetch
              /\ cache[k].key = KeyOf(f[1], f[2])

\* C17 witness: the listed source that supports URL queries is outside the zoom;
\* the other one is fetched with the parsed query, under the query string
C17_Witness ==
    /\ rq[1].req = Request(<<"a", "q">>, Zoom(1), <<Pair("k", "2"), Pair("k", "1")>>)
    /\ Len(rq[1].fetch) = 1
    /\ rq[1].fetch[1].st = "got"
    /\ rq[1].fetch[1].key =
          CacheKey("TileWithQuery", "a", 1, <<Pair("k", "2"), Pair("k", "1")>>)
    /\ rq[1].fetch[1].asked = [present |-> TRUE, map |-> {Pair("k", "1")}]
    /\ Len(calls) >= 1

\* merge_table_info has returned for the configured table
Merged == pg.stage \in {"merged", "dropped", "built"}

\* C18: calc_srid follows the SRID table: db = 0 and cfg = 0 give the default
\* if there is one and no SRID otherwise; db = 0 and cfg # 0 give cfg; db # 0
\* and cfg = 0 give db; db # 0 and cfg # 0 give cfg if they are equal and no
\* SRID otherwise, whatever the default; with no SRID the source is dropped
C18_SridTable ==
    Merged =>
        LET d == pg.db_inf.srid
            c == pg.cfg_inf.srid
        IN  /\ (d = 0 /\ c = 0 /\ pg.default_srid.present) =>
                  pg.srid = SomeInt(pg.default_srid.v)
            /\ (d = 0 /\ c = 0 /\ ~pg.default_srid.present) => pg.srid = NoneInt
            /\ (d = 0 /\ c # 0) => pg.srid = SomeInt(c)
            /\ (d # 0 /\ c = 0) => pg.srid = SomeInt(d)
            /\ (d # 0 /\ c # 0 /\ d = c) => pg.srid = SomeInt(c)
            /\ (d # 0 /\ c # 0 /\ d # c) => pg.srid = NoneInt
            /\ ~pg.srid.present => pg.stage = "dropped"
            /\ pg.stage \in {"merged", "built"} => pg.merged.v.srid = pg.srid.v

\* C18 witness: the database and the configuration disagree and a default is
\* set: no SRID, the source is dropped
C18_Witness ==
    /\ pg.stage = "dropped"
    /\ pg.db_inf.srid = 4326
    /\ pg.cfg_inf.srid = 3857
    /\ pg.default_srid = SomeInt(4326)
    /\ pg.srid = NoneInt

\* table_to_query has returned its query
Built == pg.stage = "built"

\* the positions of the ST_AsMVT calls, of the ST_TileEnvelope calls and of
\* the margin arguments in the query
MvtCalls == {k \in DOMAIN pg.sql : pg.sql[k] = Fn("ST_AsMVT")}

Envelopes == {k \in DOMAIN pg.sql : pg.sql[k] = Fn("ST_TileEnvelope")}

Margins == {k \in DOMAIN pg.sql : pg.sql[k].t = "margin"}

\* position k is an argument of the ST_TileEnvelope call at position j
InsideEnvelope(j, k) ==
    /\ j < k
    /\ \A m \in (j + 1)..k : pg.sql[m].t \notin {"call", "close"}

\* C19 as stated: one ST_AsMVT call, and each of $1, $2, $3 referenced exactly
\* once, inside ST_TileEnvelope
C19_EachParameterOnce ==
    Built =>
        /\ Cardinality(MvtCalls) = 1
        /\ \A n \in 1..3 :
              /\ Cardinality({k \in DOMAIN pg.sql : pg.sql[k] = Param(n)}) = 1
              /\ \A k \in DOMAIN pg.sql :
                    pg.sql[k] = Param(n) => \E j \in Envelopes : InsideEnvelope(j, k)

\* C19 amended: one ST_AsMVT call and two ST_TileEnvelope calls (the clip
\* envelope of ST_AsMVTGeom and the bounding-box search), each taking $1, $2,
\* $3 in this order; the parameters appear nowhere else, so each is referenced
\* exactly twice
C19_EachParameterOncePerEnvelope ==
    Built =>
        /\ Cardinality(MvtCalls) = 1
        /\ Cardinality(Envelopes) = 2
        /\ \A j \in Envelopes :
              SubSeq(pg.sql, j + 1, j + 3) = <<Param(1), Param(2), Param(3)>>
        /\ \A n \in 1..3 :
              /\ Cardinality({k \in DOMAIN pg.sql : pg.sql[k] = Param(n)}) = 2
              /\ \A k \in DOMAIN pg.sql :
                    pg.sql[k] = Param(n) => \E j \in Envelopes : InsideEnvelope(j, k)
        /\ \A k \in DOMAIN pg.sql : pg.sql[k].t = "param" => pg.sql[k].n \in 1..3

\* C19 witness: a query built for a table whose name reads `$1`
C19_Witness ==
    /\ Built
    /\ pg.merged.v.table = "$1"
    /\ \E k \in DOMAIN pg.sql : pg.sql[k] = escape_identifier("$1")
    /\ Cardinality(Envelopes) = 2

\* the effective buffer and extent
EffectiveBuffer == IF pg.cfg_inf.buffer.present THEN pg.cfg_inf.buffer.v ELSE 64

EffectiveExtent == IF pg.cfg_inf.extent.present THEN pg.cfg_inf.extent.v ELSE 4096

\* the position of the bounding-box search: the envelope handed to the
\* ST_Transform of the WHERE clause
SearchBox ==
    CHOOSE j \in Envelopes : pg.sql[j - 1] = Fn("ST_Transform") /\ pg.sql[j - 2] = Kw("&&")

\* C20: the bounding-box search is ST_TileEnvelope($1, $2, $3, margin =>
\* buffer/extent) iff the pool supports the tile margin and the effective buffer
\* (the configured one, 64 when unset) is greater than 0; otherwise it is the
\* plain ST_TileEnvelope($1, $2, $3)
C20_MarginForm ==
    Built =>
        /\ \E j \in Envelopes : pg.sql[j - 1] = Fn("ST_Transform") /\ pg.sql[j - 2] = Kw("&&")
        /\ IF pg.pool.margin /\ EffectiveBuffer > 0
           THEN /\ SubSeq(pg.sql, SearchBox, SearchBox + 5) =
                      <<Fn("ST_TileEnvelope"), Param(1), Param(2), Param(3),
                        Margin(EffectiveBuffer, EffectiveExtent), Close>>
                /\ Cardinality(Margins) = 1
           ELSE /\ SubSeq(pg.sql, SearchBox, SearchBox + 4) =
                      <<Fn("ST_TileEnvelope"), Param(1), Param(2), Param(3), Close>>
                /\ Margins = {}

\* C20 witness: no buffer configured, the pool supports the margin: the search
\* box carries margin => 64/4096
C20_Witness ==
    /\ Built
    /\ ~pg.cfg_inf.buffer.present /\ ~pg.cfg_inf.extent.present
    /\ pg.pool.margin
    /\ \E k \in DOMAIN pg.sql : pg.sql[k] = Margin(64, 4096)

\* table_to_query has returned, Ok or Err
QueryReturned == pg.stage \in {"built", "failed"}

\* C21: for a table whose bounds are unset, Quick mode whose timeout fires
\* before the bounds query completes still succeeds, returns the generated SQL
\* and leaves the bounds unset; Calc mode never times out and fails when the
\* query fails; in Skip mode, or with bounds set, no bounds query is issued and
\* the bounds are unchanged
C21_BoundsByMode ==
    /\ pg.timed_out =>
          /\ pg.bounds_type = "Quick"
          /\ pg.stage = "built"
          /\ pg.sql = table_to_query(pg.id, pg.info, pg.pool, pg.max_feature_count)
          /\ Len(pg.sql) > 0
          /\ ~pg.bounds.present
    /\ (pg.bounds_type = "Calc" /\ ~pg.bounds0.present) =>
          /\ ~pg.timed_out
          /\ pg.fut = "err" => (pg.stage = "failed" /\ pg.sql = <<>>)
          /\ pg.stage = "built" => pg.fut = "ok"
          /\ pg.stage = "failed" => pg.fut = "err"
    /\ (pg.bounds_type = "Skip" \/ pg.bounds0.present) =>
          /\ pg.fut = "none"
          /\ pg.stmt = "none"
          /\ pg.bounds = pg.bounds0
          /\ pg.stage \in {"merged", "built"}

\* C21 witness: Quick mode, the statement was sent, the timer fired first:
\* the query text is returned and the bounds are unset
C21_Witness ==
    /\ pg.bounds_type = "Quick"
    /\ pg.timed_out
    /\ pg.stmt = "running"
    /\ pg.stage = "built"
    /\ Len(pg.sql) > 0
    /\ ~pg.bounds.present

\* C22 as stated: after the timer has won and table_to_query has returned, the
\* bounds query is still alive, able to run to completion
C22_QueryOutlivesTimeout ==
    (pg.timed_out /\ QueryReturned) => pg.fut \in {"conn", "query", "ok"}

\* C22 amended: when the timer wins, the bounds future is dropped before
\* table_to_query returns and its result is never read: the bounds stay unset.
\* A statement already sent is not cancelled and may end on the server; a
\* query still waiting for a connection is never sent
C22_TimeoutDropsQuery ==
    (pg.timed_out /\ QueryReturned) =>
        /\ pg.fut = "dropped"
        /\ pg.stage = "built"
        /\ ~pg.bounds.present
        /\ pg.stmt \in {"none", "running", "finished"}

\* once the timer has won, the bounds never change and a statement that was
\* not sent is never sent
C22_Discarded ==
    pg.timed_out =>
        /\ pg'.bounds = pg.bounds
        /\ pg'.fut = pg.fut
        /\ pg.stmt = "none" => pg'.stmt = "none"

C22_DroppedAndDiscarded == []C22_TimeoutDropsQuery /\ [][C22_Discarded]_vars

\* C22 witness: the timer won while the query was waiting for a connection;
\* table_to_query has returned and no statement was ever sent
C22_Witness ==
    /\ pg.timed_out
    /\ pg.stage = "built"
    /\ pg.fut = "dropped"
    /\ pg.stmt = "none"

\* the columns the database reports for the table
DbColumns == {pg.db_inf.properties.v[k] : k \in DOMAIN pg.db_inf.properties.v}

\* the configured id_column and property names
ConfiguredKeys ==
    (IF pg.cfg_inf.id_column.present THEN {pg.cfg_inf.id_column.v} ELSE {}) \cup
    (IF pg.cfg_inf.properties.present
     THEN {pg.cfg_inf.properties.v[k] : k \in DOMAIN pg.cfg_inf.properties.v}
     ELSE {})

\* merge_table_info has returned
MergeReturned == pg.stage \in {"merged", "dropped"}

\* C30: merge_table_info returns None exactly when the configured id_column or
\* a configured property cannot be normalized or no SRID resolves; otherwise
\* the result takes schema, table, geometry_column, geometry_index, is_view
\* from the database and the resolved SRID, every other field from the
\* configuration, and prop_mapping's keys are the configured id_column and
\* property names; a geometry type mismatch never drops the source
C30_MergedFields ==
    MergeReturned =>
        /\ pg.stage = "dropped" <=>
              \/ ~pg.srid.present
              \/ \E key \in ConfiguredKeys : ~normalize_key(DbColumns, key).present
        /\ pg.stage = "dropped" <=> ~pg.merged.present
        /\ pg.merged.present =>
              /\ pg.merged.v.schema = pg.db_inf.schema
              /\ pg.merged.v.table = pg.db_inf.table
              /\ pg.merged.v.geometry_column = pg.db_inf.geometry_column
              /\ pg.merged.v.geometry_index = pg.db_inf.geometry_index
              /\ pg.merged.v.is_view = pg.db_inf.is_view
              /\ pg.merged.v.srid = pg.srid.v
              /\ pg.merged.v.geometry_type = pg.cfg_inf.geometry_type
              /\ pg.merged.v.extent = pg.cfg_inf.extent
              /\ pg.merged.v.buffer = pg.cfg_inf.buffer
              /\ pg.merged.v.clip_geom = pg.cfg_inf.clip_geom
              /\ pg.merged.v.id_column = pg.cfg_inf.id_column
              /\ pg.merged.v.properties = pg.cfg_inf.properties
              /\ pg.merged.v.layer_id = pg.cfg_inf.layer_id
              /\ {m.k : m \in pg.merged.v.prop_mapping} = ConfiguredKeys
              /\ \A m \in pg.merged.v.prop_mapping :
                    normalize_key(DbColumns, m.k) = SomeStr(m.v)

\* C30 witness: a source merged although its configured geometry type differs
\* from the database's, with the database's index and view flags and a
\* mapping for the configured id_column and properties
C30_Witness ==
    /\ pg.stage = "merged"
    /\ pg.merged.present
    /\ pg.cfg_inf.geometry_type = SomeStr("POLYGON")
    /\ pg.db_inf.geometry_type = SomeStr("POINT")
    /\ pg.merged.v.geometry_index # pg.cfg_inf.geometry_index
    /\ pg.cfg_inf.id_column.present
    /\ pg.cfg_inf.properties.present
    /\ Cardinality(pg.merged.v.prop_mapping) = 3

\* ---- glyph ranges ----
\* get_font_range has returned or panicked
Served == font.stage = "served"

\* the ids of the request, in list order
FontIdList == split(font.ids, <<>>)

\* the requested range satisfies the three conditions
ValidRange ==
    /\ font.start % 256 = 0
    /\ font.end % 256 = 255
    /\ font.end - font.start = 255

Registered(id) == \E e \in font.self.fonts : e.name = id

\* the coverage of a registered font
Cov(id) == (CHOOSE e \in font.self.fonts : e.name = id).v.codepoints

\* the codepoints of the range that the k-th id of the list covers and no
\* earlier id does
Adds(k) ==
    {cp \in font.start..font.end :
        /\ cp \in Cov(FontIdList[k])
        /\ \A j \in 1..(k - 1) : cp \notin Cov(FontIdList[j])}

\* the glyphs of the response
Glyphs ==
    IF font.result.stacks = <<>> THEN <<>> ELSE font.result.stacks[1].glyphs

\* the FreeType library fails on no call
FreeTypeWorks == font.lib_ok

\* C23: for a valid range and a list of registered ids, the codepoints
\* rendered are those of the range covered by some listed font, each rendered
\* once and by the first listed font that covers it; when there are none the
\* result is the empty byte sequence, not an error
C23_FontFallback ==
    (Served /\ ValidRange /\ FreeTypeWorks /\ \A k \in DOMAIN FontIdList : Registered(FontIdList[k])) =>
        /\ font.result.kind = "ok"
        /\ {Glyphs[g].id : g \in DOMAIN Glyphs} =
               {cp \in font.start..font.end :
                   \E k \in DOMAIN FontIdList : cp \in Cov(FontIdList[k])}
        /\ \A g, h \in DOMAIN Glyphs : Glyphs[g].id = Glyphs[h].id => g = h
        /\ \A g \in DOMAIN Glyphs :
               \E k \in DOMAIN FontIdList :
                   /\ Glyphs[g].id \in Adds(k)
                   /\ Glyphs[g].path =
                          (CHOOSE e \in font.self.fonts : e.name = FontIdList[k]).v.path
        /\ (\A k \in DOMAIN FontIdList : Adds(k) = {}) => font.result.stacks = <<>>

\* the first id of the list that is no registered font
FirstUnregistered ==
    FontIdList[CHOOSE k \in DOMAIN FontIdList :
                   /\ ~Registered(FontIdList[k])
                   /\ \A j \in 1..(k - 1) : Registered(FontIdList[j])]

\* C26: for a valid range and a list with an id that is not registered, the
\* result is FontNotFound naming the first such id, with no glyph bytes
C26_FontNotFound ==
    (Served /\ ValidRange /\ \E k \in DOMAIN FontIdList : ~Registered(FontIdList[k])) =>
        /\ font.result.kind = "err"
        /\ font.result.error = "FontNotFound"
        /\ font.result.id = FirstUnregistered
        /\ font.result.stacks = <<>>

\* C29: get_font_range never indexes masks out of bounds: whenever the range
\* checks pass, start / 256 is an index of masks, and the call returns bytes
\* or a FontError
C29_MaskIndexInBounds ==
    Served =>
        /\ font.result.kind \in {"ok", "err"}
        /\ font.result.validated => font.start \div 256 < Len(font.self.masks)

\* the ids that add a glyph, in list order
RECURSIVE Contributing(_)
Contributing(k) ==
    IF k > Len(FontIdList) THEN <<>>
    ELSE (IF Adds(k) # {} THEN <<FontIdList[k]>> ELSE <<>>) \o Contributing(k + 1)

\* names joined by a comma and a space
RECURSIVE CommaSpaceJoin(_)
CommaSpaceJoin(names) ==
    IF names = <<>> THEN <<>>
    ELSE IF Len(names) = 1 THEN names[1]
    ELSE names[1] \o <<",", " ">> \o CommaSpaceJoin(Tail(names))

\* C24: the name of the Fontstack is the ", "-join of the ids that added a
\* glyph, in list order, and its range is "{start}-{end}"
C24_StackName ==
    (Served /\ font.result.stacks # <<>>) =>
        /\ font.result.stacks[1].name = CommaSpaceJoin(Contributing(1))
        /\ font.result.stacks[1].range =
               ToString(font.start) \o "-" \o ToString(font.end)
        /\ font.start = 256 => font.result.stacks[1].range = "256-511"

\* C24 witness: "A,C,B" over 0-255: C covers only what A has rendered and is
\* left out, the name is "A, B"
C24_Witness ==
    /\ Served
    /\ font.ids = <<"A", ",", "C", ",", "B">>
    /\ font.start = 0
    /\ font.end = 255
    /\ font.result.kind = "ok"
    /\ font.result.stacks # <<>>
    /\ font.result.stacks[1].name = <<"A", ",", " ", "B">>
    /\ font.result.stacks[1].range = "0-255"

\* the error the range checks give, in the order of the claim
ExpectedRangeError ==
    IF font.start > font.end THEN "InvalidFontRangeStartEnd"
    ELSE IF font.start % 256 # 0 THEN "InvalidFontRangeStart"
    ELSE IF font.end % 256 # 255 THEN "InvalidFontRangeEnd"
    ELSE "InvalidFontRange"

RangeErrors ==
    {"InvalidFontRangeStartEnd", "InvalidFontRangeStart", "InvalidFontRangeEnd",
     "InvalidFontRange"}

\* C25: the range checks pass exactly for start % 256 = 0, end % 256 = 255,
\* end - start = 255; every other pair fails before any font is looked up,
\* with the one error the order start > end, start, end, length gives
C25_RangeChecks ==
    Served =>
        /\ font.result.validated <=> ValidRange
        /\ ValidRange => font.result.error \notin RangeErrors
        /\ ~ValidRange =>
              /\ font.result.kind = "err"
              /\ font.result.error = ExpectedRangeError
              /\ font.result.lookups = <<>>
              /\ font.result.stacks = <<>>

\* C25 witness: 0-511 passes the first three checks and fails the last
C25_Witness ==
    /\ Served
    /\ font.start = 0
    /\ font.end = 511
    /\ font.result.kind = "err"
    /\ font.result.error = "InvalidFontRange"
    /\ font.result.args = <<0, 511>>
    /\ font.result.lookups = <<>>

\* ---- the font catalog ----
\* the faces recurse_dirs has gone through
ScannedFaces == {font.config.v[j] : j \in 1..font.scanned}

\* the codepoints of 0..=0xFFFF a face has a glyph for
Covered(face) == {cp \in face.chars : cp >= 0 /\ cp <= 65535}

\* the first scanned face of that canonical name with a covered codepoint
FirstCovering(name) ==
    LET js == {j \in 1..font.scanned :
                  /\ font.config.v[j].family.present
                  /\ font_name(font.config.v[j]) = name
                  /\ Covered(font.config.v[j]) # {}}
    IN  font.config.v[CHOOSE j \in js : \A i \in js : j <= i]

\* the names of a map
Keys(map) == {e.name : e \in map}

\* the maps of the FontSources returned are those recurse_dirs filled
ReturnedMaps ==
    (font.stage = "resolved" /\ font.config.present) =>
        /\ font.self.fonts = font.reg.fonts
        /\ font.self.catalog = font.reg.catalog

\* the font map and the catalog hold the same names; a name is registered
\* exactly when a scanned face has it and covers a codepoint, and then for the
\* first such face
C27_Registered ==
    /\ Keys(font.reg.fonts) = Keys(font.reg.catalog)
    /\ Keys(font.self.fonts) = Keys(font.self.catalog)
    /\ ReturnedMaps
    /\ \A face \in ScannedFaces :
           (face.family.present /\ Covered(face) # {}) =>
               font_name(face) \in Keys(font.reg.fonts)
    /\ \A e \in font.reg.fonts :
           /\ \E face \in ScannedFaces :
                  /\ face.family.present
                  /\ font_name(face) = e.name
                  /\ Covered(face) # {}
           /\ e.v.path = FirstCovering(e.name).path
           /\ e.v.face_index = FirstCovering(e.name).face_index
           /\ e.v.codepoints = Covered(FirstCovering(e.name))
           /\ \A c \in font.reg.catalog :
                  c.name = e.name =>
                      /\ c.v.family = FirstCovering(e.name).family.v
                      /\ c.v.style = FirstCovering(e.name).style

\* a registered name keeps its FontSource and its catalog entry
C27_Kept ==
    /\ font.reg.fonts \subseteq font'.reg.fonts
    /\ font.reg.catalog \subseteq font'.reg.catalog

\* C27: after the catalog build each canonical name is registered for the
\* first scanned face of that name covering a codepoint, later faces of the
\* name change neither the FontSource nor the catalog entry, a face covering
\* nothing is never registered, and the font map and the catalog have the
\* same names
C27_FirstFaceWins == []C27_Registered /\ [][C27_Kept]_vars

\* C27 witness: two faces, "A" with style "B" and "A/B", share the name "A B"
\* and cover different codepoints; the build ends with the first registered
C27_Witness ==
    /\ font.stage = "resolved"
    /\ font.config.present
    /\ Len(font.config.v) = 2
    /\ font.config.v[1].family # font.config.v[2].family
    /\ font.config.v[2].family.present
    /\ font_name(font.config.v[1]) = font_name(font.config.v[2])
    /\ Covered(font.config.v[1]) # {}
    /\ Covered(font.config.v[2]) # {}
    /\ Covered(font.config.v[1]) # Covered(font.config.v[2])
    /\ Keys(font.self.fonts) = {<<"A", " ", "B">>}
    /\ \A e \in font.self.fonts : e.v.path = font.config.v[1].path

\* C28: the FontEntry of every registered font has total_glyphs = the number
\* of covered codepoints, start = the smallest and end = the largest of them,
\* and building the entry never fails for a face that covers a codepoint
C28_EntryBounds ==
    /\ \A c \in font.reg.catalog :
           LET covered == Covered(FirstCovering(c.name))
           IN  /\ c.v.total_glyphs = Cardinality(covered)
               /\ c.v.start \in covered
               /\ c.v.end \in covered
               /\ \A cp \in covered : c.v.start <= cp /\ cp <= c.v.end
    /\ font.reg.status # "panic"

====
